---- MODULE Spec2Model ----
(***************************************************************************)
(* yggdrasil-cpp-genkeys: the Ed25519 key search.                          *)
(*                                                                         *)
(* Two specifications over one set of variables:                           *)
(*   Spec    the running program: WorkerManager::Run, its workers and the  *)
(*           ThreadSafeQueue between them;                                 *)
(*   FnSpec  the pure functions (Seed_t::operator++, AddrForKey,           *)
(*           LeadingZeroBits, AddressZeroBlocks, Candidate::IsBetter),     *)
(*           each applied once to an input drawn in the initial state.     *)
(* Byte arrays are sequences of 0..255, index 1 = byte 0 of the C++ array. *)
(***************************************************************************)
EXTENDS Integers, Sequences, FiniteSets, TLC

VARIABLES
    ndebug,         \* the build: TRUE when assert() is compiled out (NDEBUG)
    probe,          \* FnSpec: the function under test, its input, its result
    tsq,            \* QueueSpec: queue_'s mutex_, condition_ and its callers
    settings_,      \* WorkerManager::settings_
    workers_,       \* per worker: generator, local best, counter, thread state
    queue_,         \* WorkerManager::queue_ (ThreadSafeQueue<Candidate>)
    global_best_,   \* WorkerManager::global_best_
    stop_,          \* WorkerManager::stop_
    manager,        \* where Run is, and the clock
    reports         \* what PrintBest has written so far

vars == <<ndebug, probe, tsq, settings_, workers_, queue_, global_best_, stop_,
          manager, reports>>

sysvars == <<settings_, workers_, queue_, global_best_, stop_, manager,
             reports>>

----------------------------------------------------------------------------
(* Sizes of the value types.                                               *)

PublicKeySize == 32
SecretKeySize == 64
SeedSize == 32
AddrSize == 16
ByteMod == 256

Byte == 0 .. (ByteMod - 1)

RECURSIVE Pow2(_)
Pow2(n) == IF n = 0 THEN 1 ELSE 2 * Pow2(n - 1)

Zeros(n) == [i \in 1 .. n |-> 0]

\* (bytes[idx / 8] & (0x80 >> (idx % 8))) >> (7 - (idx % 8))
BitAt(bytes, idx) == (bytes[(idx \div 8) + 1] \div Pow2(7 - (idx % 8))) % 2

\* std::countl_zero on a uint8_t
Countl_zero(b) ==
    IF b >= 128 THEN 0
    ELSE IF b >= 64 THEN 1
    ELSE IF b >= 32 THEN 2
    ELSE IF b >= 16 THEN 3
    ELSE IF b >= 8 THEN 4
    ELSE IF b >= 4 THEN 5
    ELSE IF b >= 2 THEN 6
    ELSE IF b >= 1 THEN 7
    ELSE 8

----------------------------------------------------------------------------
(* Seed_t::operator++                                                      *)

\* A variant that stops the carry at the last byte (no propagation).
Increment_NoCarry(seed) ==
    [seed EXCEPT ![Len(seed)] = (seed[Len(seed)] + 1) % ByteMod]

\* for (i = Size; i-- > 0;) { if (bytes[i] != 0xFF) { ++bytes[i]; return; }
\*                            bytes[i] = 0; }
RECURSIVE IncrementFrom(_, _)
IncrementFrom(bytes, i) ==
    IF i = 0 THEN bytes
    ELSE IF bytes[i] # ByteMod - 1
         THEN [bytes EXCEPT ![i] = bytes[i] + 1]
         ELSE IncrementFrom([bytes EXCEPT ![i] = 0], i - 1)

Increment(seed) == IncrementFrom(seed, Len(seed))

----------------------------------------------------------------------------
(* LeadingZeroBits (compare.h)                                             *)

\* A variant that never leaves the loop early.
RECURSIVE LeadingZeroBits_NoBreakFrom(_, _, _)
LeadingZeroBits_NoBreakFrom(key, i, count) ==
    IF i > Len(key) THEN count
    ELSE LeadingZeroBits_NoBreakFrom(key, i + 1, count + Countl_zero(key[i]))

LeadingZeroBits_NoBreak(key) == LeadingZeroBits_NoBreakFrom(key, 1, 0)

RECURSIVE LeadingZeroBitsFrom(_, _, _)
LeadingZeroBitsFrom(key, i, count) ==
    IF i > Len(key) THEN count
    ELSE LET bits == Countl_zero(key[i]) IN
         IF bits # 8 THEN count + bits
         ELSE LeadingZeroBitsFrom(key, i + 1, count + bits)

LeadingZeroBits(key) == LeadingZeroBitsFrom(key, 1, 0)

----------------------------------------------------------------------------
(* AddressZeroBlocks (compare.h)                                           *)

BLOCKS_COUNT == 8
BYTES_PER_BLOCK == 2

Max(a, b) == IF a > b THEN a ELSE b

\* addr.bytes[byte_offset] == 0 and addr.bytes[byte_offset + 1] == 0
BlockIsZero(addr, i) ==
    /\ addr[i * BYTES_PER_BLOCK + 1] = 0
    /\ addr[i * BYTES_PER_BLOCK + 2] = 0

RECURSIVE ZeroBlocksFrom(_, _, _, _)
ZeroBlocksFrom(addr, i, consecutive_zeros, max_consecutive_zeros) ==
    IF i >= BLOCKS_COUNT THEN max_consecutive_zeros
    ELSE IF BlockIsZero(addr, i)
         THEN ZeroBlocksFrom(addr, i + 1, consecutive_zeros + 1,
                             Max(max_consecutive_zeros, consecutive_zeros + 1))
         ELSE ZeroBlocksFrom(addr, i + 1, 0, max_consecutive_zeros)

\* A variant whose loop starts at block 0.
AddressZeroBlocks_FromBlock0(addr) == ZeroBlocksFrom(addr, 0, 0, 0)

AddressZeroBlocks(addr) == ZeroBlocksFrom(addr, 1, 0, 0)

----------------------------------------------------------------------------
(* AddrForKey (ed25519_keys.h)                                             *)

Prefix == <<2>>

\* A variant that copies the key without inverting it.
Inverted_Copied(public_key) ==
    [i \in 1 .. Len(public_key) |-> public_key[i]]

\* inverted[i] = ~public_key.bytes[i]
Inverted(public_key) ==
    [i \in 1 .. Len(public_key) |-> (ByteMod - 1) - public_key[i]]

\* One pass of the loop over the bits of the inverted key, at bit idx.
\* st holds the locals: done, ones (uint8_t), bits (uint8_t), n_bits, temp,
\* and failed when the assertion ones <= 127 was evaluated and false.
AddrBit(inverted, idx, st) ==
    LET bit == BitAt(inverted, idx) IN
    IF ~st.done /\ bit # 0
    THEN [st EXCEPT !.ones = (st.ones + 1) % ByteMod]
    ELSE IF ~st.done /\ bit = 0
    THEN [st EXCEPT !.done = TRUE, !.failed = ~(st.ones <= 127)]
    ELSE LET b == ((st.bits * 2) % ByteMod) + bit IN
         IF st.n_bits + 1 = 8
         THEN [st EXCEPT !.bits = 0, !.n_bits = 0,
                         !.temp = Append(st.temp, b)]
         ELSE [st EXCEPT !.bits = b, !.n_bits = st.n_bits + 1]

\* The passes for the 8 bits of byte i (idx = 8 * i .. 8 * i + 7).
AddrByte(inverted, i, st) ==
    LET s1 == AddrBit(inverted, 8 * i, st)
        s2 == AddrBit(inverted, 8 * i + 1, s1)
        s3 == AddrBit(inverted, 8 * i + 2, s2)
        s4 == AddrBit(inverted, 8 * i + 3, s3)
        s5 == AddrBit(inverted, 8 * i + 4, s4)
        s6 == AddrBit(inverted, 8 * i + 5, s5)
        s7 == AddrBit(inverted, 8 * i + 6, s6)
    IN  AddrBit(inverted, 8 * i + 7, s7)

\* for (idx = 0; idx < 8 * inverted.size(); ++idx), byte by byte.  The
\* loop has no exit before the last bit; n_bits is below 8 after every
\* pass, and reading it here has the locals evaluated pass by pass.
RECURSIVE AddrLoop(_, _, _)
AddrLoop(inverted, i, st) ==
    IF i >= Len(inverted) \/ st.n_bits >= 8 THEN st
    ELSE AddrLoop(inverted, i + 1, AddrByte(inverted, i, st))

AddrLocals(public_key) ==
    AddrLoop(Inverted(public_key), 0,
             [done |-> FALSE, failed |-> FALSE, ones |-> 0, bits |-> 0,
              n_bits |-> 0, temp |-> <<>>])

\* The address as the function builds it after the loop.
AddrBytes(st) ==
    LET remaining_space == AddrSize - Len(Prefix) - 1
        copy_size == IF Len(st.temp) < remaining_space
                     THEN Len(st.temp) ELSE remaining_space
    IN  [i \in 1 .. AddrSize |->
            IF i <= Len(Prefix) THEN Prefix[i]
            ELSE IF i = Len(Prefix) + 1 THEN st.ones
            ELSE IF i - Len(Prefix) - 1 <= copy_size
                 THEN st.temp[i - Len(Prefix) - 1]
                 ELSE 0]

\* A variant that emits the first 0-bit into the tail again.
AddrForKey_KeepZeroBit(public_key) ==
    LET st == AddrLocals(public_key)
        a == AddrBytes(st)
    IN  [i \in 1 .. AddrSize |->
            IF i = Len(Prefix) + 2 THEN a[i] \div 2 ELSE a[i]]

\* The address AddrForKey returns (when it returns).
AddrForKey(public_key) == AddrBytes(AddrLocals(public_key))

\* TRUE when the call ends in the failed assertion instead of returning:
\* the assertion exists only in a build without NDEBUG.
AddrForKeyAborts(public_key) ==
    ~ndebug /\ AddrLocals(public_key).failed

----------------------------------------------------------------------------
(* Candidate (candidate.h)                                                 *)

\* A variant that leaves the tie-break on zero_bits out.
IsBetter_BlocksOnly(self, other, ipv6_nice) ==
    IF ipv6_nice
    THEN self.ipv6_zero_blocks > other.ipv6_zero_blocks
    ELSE self.zero_bits > other.zero_bits

\* A variant that also accepts equal scores.
IsBetter_OrEqual(self, other, ipv6_nice) ==
    IF ipv6_nice
    THEN \/ self.ipv6_zero_blocks > other.ipv6_zero_blocks
         \/ /\ self.ipv6_zero_blocks = other.ipv6_zero_blocks
            /\ self.zero_bits >= other.zero_bits
    ELSE self.zero_bits >= other.zero_bits

IsBetter(self, other, ipv6_nice) ==
    IF ipv6_nice
    THEN IF \/ self.ipv6_zero_blocks > other.ipv6_zero_blocks
            \/ /\ self.ipv6_zero_blocks = other.ipv6_zero_blocks
               /\ self.zero_bits > other.zero_bits
         THEN TRUE
         ELSE FALSE
    ELSE IF self.zero_bits > other.zero_bits
         THEN TRUE
         ELSE FALSE

----------------------------------------------------------------------------
(* Ed25519_KeysGenerator (ed25519_keys_generator.h)                        *)

\* Keys_t keys_{}: all bytes zero.
EmptyKeys ==
    [public_key |-> Zeros(PublicKeySize),
     secret_key |-> Zeros(SecretKeySize),
     seed |-> Zeros(SeedSize)]

\* Candidate{}: empty keys, zero address, both scores 0.
EmptyCandidate ==
    [keys |-> EmptyKeys, addr |-> Zeros(AddrSize),
     zero_bits |-> 0, ipv6_zero_blocks |-> 0]

\* A generator after construction.  randoms and increments count the calls
\* of GenerateRandomSeed and of ++keys_.seed made so far.
NewGenerator == [keys_ |-> EmptyKeys, randoms |-> 0, increments |-> 0]

\* A key with z leading zero bits, then a one bit, then the bits of the
\* byte fill repeated (bit idx takes bit idx % 8 of fill).
KeyBit(z, fill, idx) ==
    IF idx < z THEN 0
    ELSE IF idx = z THEN 1
    ELSE (fill \div Pow2(7 - (idx % 8))) % 2

KeyFrom(z, fill) ==
    [i \in 1 .. PublicKeySize |->
        LET base == 8 * (i - 1) IN
        128 * KeyBit(z, fill, base) + 64 * KeyBit(z, fill, base + 1)
        + 32 * KeyBit(z, fill, base + 2) + 16 * KeyBit(z, fill, base + 3)
        + 8 * KeyBit(z, fill, base + 4) + 4 * KeyBit(z, fill, base + 5)
        + 2 * KeyBit(z, fill, base + 6) + KeyBit(z, fill, base + 7)]

\* Public key of the first test vector of the unit tests,
\* c14f47307e7b1a45df5ba772fe1f36249996df3cd346e192f0e9eff49fa4c506.
TestPublicKey ==
    <<193, 79, 71, 48, 126, 123, 26, 69, 223, 91, 167, 114, 254, 31, 54, 36,
      153, 150, 223, 60, 211, 70, 225, 146, 240, 233, 239, 244, 159, 164,
      197, 6>>

\* Its address, 200:7d61:719f:309:cb74:4148:b11a:3c1.
TestAddress ==
    <<2, 0, 125, 97, 113, 159, 3, 9, 203, 116, 65, 72, 177, 26, 3, 193>>

\* The keys of the unit test compare:
\* 000000209962eff0..., 00000034b94aa677..., 00000044b94aa677...
CompareKey1 ==
    <<0, 0, 0, 32, 153, 98, 239, 240, 13, 239, 195, 252, 222, 83, 165, 38,
      245, 237, 51, 28, 116, 97, 227, 170, 59, 122, 51, 192, 32, 235, 138,
      242>>

CompareKey2 ==
    <<0, 0, 0, 52, 185, 74, 166, 119, 201, 98, 196, 20, 65, 120, 30, 217,
      177, 251, 91, 69, 242, 178, 25, 50, 109, 88, 49, 72, 95, 26, 100,
      249>>

CompareKey3 ==
    <<0, 0, 0, 68, 185, 74, 166, 119, 201, 98, 196, 20, 65, 120, 30, 217,
      177, 251, 91, 69, 242, 178, 25, 50, 109, 88, 49, 72, 95, 26, 100,
      249>>

\* The public keys the library derives in this model, with scores
\* (zero_bits, ipv6_zero_blocks) = (0,0), (1,7), (2,0), (1,0).
PubKeys ==
    <<TestPublicKey, KeyFrom(1, 255), KeyFrom(2, 165), KeyFrom(1, 165)>>

\* crypto_sign_ed25519_seed_keypair's public key: a fixed function of the
\* seed (here of its last byte), so that successive seeds give keys of
\* different scores.
SeedKeypairPublic(seed) ==
    PubKeys[(seed[Len(seed)] % Len(PubKeys)) + 1]

\* randombytes_buf(keys_.seed): the seed becomes the bytes drawn.
GenerateRandomSeed(gen, random_seed) ==
    [gen EXCEPT !.keys_.seed = random_seed, !.randoms = @ + 1]

\* Generate(Seed_t& seed): the library writes the public key and the
\* secret key (seed followed by public key); keys_.seed is not touched.
GenerateFromSeed(gen, seed) ==
    LET pk == SeedKeypairPublic(seed) IN
    [gen EXCEPT !.keys_.public_key = pk, !.keys_.secret_key = seed \o pk]

\* A variant that draws a random seed on every call.
Generate_AlwaysRandom(gen, crypto, random_seed) ==
    LET g == GenerateRandomSeed(gen, random_seed) IN
    GenerateFromSeed(g, g.keys_.seed)

\* Generate(bool crypto)
Generate(gen, crypto, random_seed) ==
    LET g == IF crypto
             THEN GenerateRandomSeed(gen, random_seed)
             ELSE [gen EXCEPT !.keys_.seed = Increment(@),
                              !.increments = @ + 1]
    IN  GenerateFromSeed(g, g.keys_.seed)

----------------------------------------------------------------------------
(* ThreadSafeQueue (thread_safe_queue.h)                                   *)

\* push_back: under the mutex, queue_.push(value)
push_back(q, value) == Append(q, value)

\* a fault, for comparison: the item taken is the newest
try_pop_front_Newest(q) ==
    IF q = <<>>
    THEN [has_value |-> FALSE, value |-> EmptyCandidate, queue |-> q]
    ELSE [has_value |-> TRUE, value |-> q[Len(q)],
          queue |-> SubSeq(q, 1, Len(q) - 1)]

\* try_pop_front: under the mutex; nullopt when empty, else front + pop
try_pop_front(q) ==
    IF q = <<>>
    THEN [has_value |-> FALSE, value |-> EmptyCandidate, queue |-> q]
    ELSE [has_value |-> TRUE, value |-> Head(q), queue |-> Tail(q)]

----------------------------------------------------------------------------
(* Bounds of the model.                                                    *)

MaxKeys == 2        \* keys generated by all workers together
MaxElapsed == 2     \* whole seconds the clock can show
MaxScore == 2       \* FnSpec: largest score of a compared candidate

\* settings_.threads_count in this model
ThreadCounts == {1, 2}

\* Seeds randombytes_buf may draw in this model: all 0xFF (the next seed
\* wraps to zero), all zero, and 00..00 FF 01.
AllFF == [i \in 1 .. SeedSize |-> ByteMod - 1]

StartSeeds ==
    {AllFF, Zeros(SeedSize),
     [i \in 1 .. SeedSize |->
        IF i = SeedSize THEN 1
        ELSE IF i = SeedSize - 1 THEN ByteMod - 1 ELSE 0]}

----------------------------------------------------------------------------
(* Worker (worker.h)                                                       *)

\* A worker after construction; its thread has not run Process yet.
\* start_seed remembers the seed randombytes_buf gave it (none yet: empty);
\* publishing is TRUE between the update of local_best and its push.
NewWorker ==
    [state |-> "Created", stop_requested |-> FALSE, gen |-> NewGenerator,
     local_best |-> EmptyCandidate, generated |-> 0, start_seed |-> <<>>,
     publishing |-> FALSE]

\* The scores of a public key, as a candidate is built from it.
ScoreKey(public_key) ==
    LET addr == AddrForKey(public_key) IN
    [failed |-> AddrLocals(public_key).failed, addr |-> addr,
     zero_bits |-> LeadingZeroBits(public_key),
     ipv6_zero_blocks |-> AddressZeroBlocks(addr)]

\* ScoreKey tabulated once for the public keys the library derives here.
Scored == [k \in 1 .. Len(PubKeys) |-> ScoreKey(PubKeys[k])]

KeyIndex(public_key) ==
    CHOOSE k \in 1 .. Len(PubKeys) : PubKeys[k] = public_key

\* The candidate of a freshly generated key pair.
MakeCandidate(keys) ==
    LET s == Scored[KeyIndex(keys.public_key)] IN
    [keys |-> keys, addr |-> s.addr, zero_bits |-> s.zero_bits,
     ipv6_zero_blocks |-> s.ipv6_zero_blocks]

\* AddrForKey ends in its failed assertion for this key.
CandidateAborts(keys) ==
    ~ndebug /\ Scored[KeyIndex(keys.public_key)].failed

Threads == DOMAIN workers_

\* GetGeneratedKeysCount summed over the first n workers.
RECURSIVE SumGenerated(_)
SumGenerated(n) ==
    IF n = 0 THEN 0 ELSE workers_[n].generated + SumGenerated(n - 1)

\* The thread starts running Process.
WorkerStart(w) ==
    /\ workers_[w].state = "Created"
    /\ workers_' = [workers_ EXCEPT ![w].state = "Running"]
    /\ UNCHANGED <<ndebug, probe, tsq, settings_, queue_, global_best_, stop_,
                   manager, reports>>

\* The first part of an iteration of the search loop: no stop requested at
\* its top, then generate (random seed on the first, advance on the
\* others), derive, score, count, and update the local best when better.
WorkerIterate(w) ==
    /\ workers_[w].state = "Running"
    /\ ~workers_[w].publishing
    /\ ~workers_[w].stop_requested
    /\ SumGenerated(Len(workers_)) < MaxKeys
    /\ \E random_seed \in StartSeeds :
        LET wk == workers_[w]
            first == wk.generated = 0
            gen == Generate(wk.gen, first, random_seed)
            cand == MakeCandidate(gen.keys_)
            better == IsBetter(cand, wk.local_best, settings_.ipv6_nice)
        IN  /\ ~CandidateAborts(gen.keys_)
            /\ workers_' =
                 [workers_ EXCEPT
                    ![w].gen = gen,
                    ![w].generated = @ + 1,
                    ![w].start_seed = IF first THEN random_seed ELSE @,
                    ![w].local_best = IF better THEN cand ELSE @,
                    ![w].publishing = better]
    /\ UNCHANGED <<ndebug, probe, tsq, settings_, queue_, global_best_,
                   stop_, manager, reports>>

\* The rest of an iteration that improved the local best: publish it.
WorkerPublish(w) ==
    /\ workers_[w].state = "Running"
    /\ workers_[w].publishing
    /\ queue_' = push_back(queue_, workers_[w].local_best)
    /\ workers_' = [workers_ EXCEPT ![w].publishing = FALSE]
    /\ UNCHANGED <<ndebug, probe, tsq, settings_, global_best_, stop_,
                   manager, reports>>

\* The stop request is seen at the top of an iteration.
WorkerSeeStop(w) ==
    /\ workers_[w].state = "Running"
    /\ ~workers_[w].publishing
    /\ workers_[w].stop_requested
    /\ workers_' = [workers_ EXCEPT ![w].state = "Stopping"]
    /\ UNCHANGED <<ndebug, probe, tsq, settings_, queue_, global_best_,
                   stop_, manager, reports>>

\* Process returns.
WorkerExit(w) ==
    /\ workers_[w].state = "Stopping"
    /\ workers_' = [workers_ EXCEPT ![w].state = "Stopped"]
    /\ UNCHANGED <<ndebug, probe, tsq, settings_, queue_, global_best_, stop_,
                   manager, reports>>

----------------------------------------------------------------------------
(* WorkerManager (worker_manager.h)                                        *)

\* RunWorkers, then start_time_ = now: Run enters its loop.
RunWorkers ==
    /\ manager.pc = "start"
    /\ workers_' = [w \in 1 .. settings_.threads_count |-> NewWorker]
    /\ manager' = [manager EXCEPT !.pc = "loop"]
    /\ UNCHANGED <<ndebug, probe, tsq, settings_, queue_, global_best_, stop_,
                   reports>>

\* a fault, for comparison: Stop() clears the best found so far
Stop_ClearsBest ==
    /\ manager.pc # "done"
    /\ ~stop_
    /\ stop_' = TRUE
    /\ global_best_' = EmptyCandidate
    /\ UNCHANGED <<ndebug, probe, tsq, settings_, workers_, queue_, manager,
                   reports>>

\* Stop(), called by the signal handler.
Stop ==
    /\ manager.pc # "done"
    /\ ~stop_
    /\ stop_' = TRUE
    /\ UNCHANGED <<ndebug, probe, tsq, settings_, workers_, queue_, global_best_,
                   manager, reports>>

\* A variant that adopts whatever was popped.
NewBest_Always(best, global_best, ipv6_nice) == best.has_value

\* new_best of one tick: an item was popped and it is better.
NewBest(best, global_best, ipv6_nice) ==
    IF best.has_value
    THEN IF IsBetter(best.value, global_best, ipv6_nice) THEN TRUE ELSE FALSE
    ELSE FALSE

\* A variant that computes the rate before the test of elapsed; the
\* division by 0 is undefined, 0 stands for whatever it leaves in rate.
PrintBest_RateUnguarded(best, elapsed) ==
    LET generated_keys_count == SumGenerated(Len(workers_)) IN
    [header |-> elapsed > 0,
     generated_keys_count |-> generated_keys_count,
     rate |-> IF settings_.verbose
              THEN IF elapsed = 0 THEN 0
                   ELSE generated_keys_count \div elapsed
              ELSE -1,
     elapsed |-> elapsed,
     priv |-> best.keys.secret_key,
     pub |-> best.keys.public_key,
     ip |-> Scored[KeyIndex(best.keys.public_key)].addr]

\* a fault, for comparison: the loop over workers_ reads the first only
PrintBest_FirstWorker(best, elapsed) ==
    LET generated_keys_count == SumGenerated(1) IN
    [header |-> elapsed > 0,
     generated_keys_count |-> generated_keys_count,
     rate |-> IF elapsed > 0 /\ settings_.verbose
              THEN generated_keys_count \div elapsed ELSE -1,
     elapsed |-> elapsed,
     priv |-> best.keys.secret_key,
     pub |-> best.keys.public_key,
     ip |-> Scored[KeyIndex(best.keys.public_key)].addr]

\* What PrintBest writes, with the clock showing elapsed whole seconds.
\* rate is -1 when the line with the rate is not written.
PrintBest(best, elapsed) ==
    LET generated_keys_count == SumGenerated(Len(workers_)) IN
    [header |-> elapsed > 0,
     generated_keys_count |-> generated_keys_count,
     rate |-> IF elapsed > 0 /\ settings_.verbose
              THEN generated_keys_count \div elapsed ELSE -1,
     elapsed |-> elapsed,
     priv |-> best.keys.secret_key,
     pub |-> best.keys.public_key,
     ip |-> Scored[KeyIndex(best.keys.public_key)].addr]

\* The clock (steady_clock::now() - start_time_) is kept in half seconds,
\* up to MaxNow; the code reads it as whole seconds:
\* static_cast<uint64_t>(duration.count()).
MaxNow == 2 * MaxElapsed

WholeSeconds(now) == now \div 2

\* The duration limit of one tick: settings_.max_duration != 0 and
\* elapsed > settings_.max_duration.
TimeUp(elapsed, max_duration) ==
    IF max_duration # 0 THEN elapsed > max_duration ELSE FALSE

\* A variant whose target test is strict.
Reached_Strict(global_best, target_leading_zeros) ==
    IF target_leading_zeros # 0
    THEN global_best.zero_bits > target_leading_zeros
    ELSE FALSE

\* The target of one tick: settings_.target_leading_zeros != 0 and
\* global_best_.zero_bits >= settings_.target_leading_zeros.
Reached(global_best, target_leading_zeros) ==
    IF target_leading_zeros # 0
    THEN global_best.zero_bits >= target_leading_zeros
    ELSE FALSE

\* One pass of the loop in Run: stop_ was false at the loop condition.
\* The sleep lets the clock advance by d half seconds.
Tick ==
    /\ manager.pc = "loop"
    /\ ~stop_
    /\ \E d \in 0 .. 1 :
        LET now == IF manager.now + d > MaxNow
                   THEN MaxNow ELSE manager.now + d
            elapsed == WholeSeconds(now)
            best == try_pop_front(queue_)
            new_best == NewBest(best, global_best_, settings_.ipv6_nice)
            global_best == IF new_best THEN best.value ELSE global_best_
            time_up == TimeUp(elapsed, settings_.max_duration)
            reached == Reached(global_best, settings_.target_leading_zeros)
        IN  /\ queue_' = best.queue
            /\ global_best_' = global_best
            /\ reports' = IF new_best
                          THEN Append(reports, PrintBest(global_best, elapsed))
                          ELSE reports
            /\ stop_' = (time_up \/ reached)
            /\ manager' = [manager EXCEPT !.now = now]
    /\ UNCHANGED <<ndebug, probe, tsq, settings_, workers_>>

\* A variant that ends the threads where they are instead of requesting
\* them to stop.
StopWorkers_Kill ==
    /\ manager.pc = "loop"
    /\ stop_
    /\ workers_' = [w \in DOMAIN workers_ |->
                      [workers_[w] EXCEPT !.stop_requested = TRUE,
                                          !.state = "Stopped"]]
    /\ manager' = [manager EXCEPT !.pc = "grace"]
    /\ UNCHANGED <<ndebug, probe, tsq, settings_, queue_, global_best_,
                   stop_, reports>>

\* A variant that leaves the loop without requesting any thread to stop.
StopWorkers_NoRequest ==
    /\ manager.pc = "loop"
    /\ stop_
    /\ manager' = [manager EXCEPT !.pc = "grace"]
    /\ UNCHANGED <<ndebug, probe, tsq, settings_, workers_, queue_,
                   global_best_, stop_, reports>>

\* The loop condition finds stop_ set: StopWorkers requests every thread
\* to stop and the grace period starts.
StopWorkers ==
    /\ manager.pc = "loop"
    /\ stop_
    /\ workers_' = [w \in DOMAIN workers_ |->
                      [workers_[w] EXCEPT !.stop_requested = TRUE]]
    /\ manager' = [manager EXCEPT !.pc = "grace"]
    /\ UNCHANGED <<ndebug, probe, tsq, settings_, queue_, global_best_, stop_,
                   reports>>

\* The grace period is over: Run returns.
RunReturns ==
    /\ manager.pc = "grace"
    /\ manager' = [manager EXCEPT !.pc = "done"]
    /\ UNCHANGED <<ndebug, probe, tsq, settings_, workers_, queue_, global_best_,
                   stop_, reports>>

----------------------------------------------------------------------------
(* The running program.                                                    *)

NoProbe == [op |-> "none", done |-> FALSE]

\* queue_'s mutex_ and condition_ with no call in progress.
NoCalls == [mutex_ |-> 0, call |-> <<>>]

SysInit ==
    /\ workers_ = <<>>
    /\ queue_ = <<>>
    /\ global_best_ = EmptyCandidate
    /\ stop_ = FALSE
    /\ manager = [pc |-> "start", now |-> 0]
    /\ reports = <<>>

Init ==
    /\ ndebug \in BOOLEAN
    /\ probe = NoProbe
    /\ tsq = NoCalls
    /\ settings_ \in [threads_count : ThreadCounts,
                      max_duration : {0, 1},
                      target_leading_zeros : {0, 1},
                      verbose : BOOLEAN,
                      ipv6_nice : BOOLEAN]
    /\ SysInit

Next ==
    \/ RunWorkers
    \/ Tick
    \/ Stop
    \/ StopWorkers
    \/ RunReturns
    \/ \E w \in Threads : WorkerStart(w)
    \/ \E w \in Threads : WorkerIterate(w)
    \/ \E w \in Threads : WorkerPublish(w)
    \/ \E w \in Threads : WorkerSeeStop(w)
    \/ \E w \in Threads : WorkerExit(w)

Spec == Init /\ [][Next]_vars

\* The steps of worker w's thread that need no new key: the start, the
\* push of an improved local best, and the way out after a stop request.
WorkerStep(w) ==
    /\ w \in Threads
    /\ \/ WorkerStart(w)
       \/ WorkerPublish(w)
       \/ WorkerSeeStop(w)
       \/ WorkerExit(w)

\* Every thread that can take a step gets to take one: the coordinator's
\* thread (RunWorkers, the loop, StopWorkers, the return) and each worker's
\* thread.  Nothing is assumed about how many keys a worker generates, and
\* the signal handler's Stop may never come.
Fairness ==
    /\ WF_vars(RunWorkers)
    /\ WF_vars(Tick)
    /\ WF_vars(StopWorkers)
    /\ WF_vars(RunReturns)
    /\ \A w \in UNION {1 .. n : n \in ThreadCounts} : WF_vars(WorkerStep(w))

\* The runs of Spec in a build without assertions and without the verbose
\* line (neither has a part in how a run stops), under Fairness.
FairInit ==
    /\ Init
    /\ ndebug
    /\ ~settings_.verbose

FairSpec == FairInit /\ [][Next]_vars /\ Fairness

\* The runs that only a target can stop: a target is set, no duration
\* limit is, and no signal arrives.
TargetInit ==
    /\ ndebug = TRUE
    /\ probe = NoProbe
    /\ tsq = NoCalls
    /\ settings_ \in [threads_count : ThreadCounts,
                      max_duration : {0},
                      target_leading_zeros : {1, 2},
                      verbose : {FALSE},
                      ipv6_nice : BOOLEAN]
    /\ SysInit

TargetNext ==
    \/ RunWorkers
    \/ Tick
    \/ StopWorkers
    \/ RunReturns
    \/ \E w \in Threads : WorkerStart(w)
    \/ \E w \in Threads : WorkerIterate(w)
    \/ \E w \in Threads : WorkerPublish(w)
    \/ \E w \in Threads : WorkerSeeStop(w)
    \/ \E w \in Threads : WorkerExit(w)

TargetSpec == TargetInit /\ [][TargetNext]_vars /\ Fairness

----------------------------------------------------------------------------
(* BytesToHex, HexToBytes (bytes.h).  A string is the sequence of the      *)
(* codes of its characters.                                                *)

MASK == 15

\* '0' .. '9', 'a' .. 'f'
hex_chars ==
    <<48, 49, 50, 51, 52, 53, 54, 55, 56, 57, 97, 98, 99, 100, 101, 102>>

\* a fault, for comparison: the low nibble is written first
BytesToHex_LowFirst(bytes) ==
    [j \in 1 .. (2 * Len(bytes)) |->
        LET byte == bytes[(j + 1) \div 2] IN
        IF j % 2 = 1 THEN hex_chars[(byte % (MASK + 1)) + 1]
        ELSE hex_chars[(byte \div 16) + 1]]

\* BytesToHex: for each byte, hex_chars[byte >> 4], hex_chars[byte & MASK]
BytesToHex(bytes) ==
    [j \in 1 .. (2 * Len(bytes)) |->
        LET byte == bytes[(j + 1) \div 2] IN
        IF j % 2 = 1 THEN hex_chars[(byte \div 16) + 1]
        ELSE hex_chars[(byte % (MASK + 1)) + 1]]

\* (c >= 'a') ? c - 'a' + 10 : c - '0', stored in a uint8_t
HexNibble(c) ==
    (IF c >= 97 THEN c - 97 + 10 ELSE c - 48) % ByteMod

\* HexToBytes<SIZE>: byte i from the characters 2i and 2i + 1 when the
\* string has them, else 0
HexToBytes(SIZE, hex) ==
    [k \in 1 .. SIZE |->
        LET i == k - 1 IN
        IF 2 * i + 1 < Len(hex)
        THEN (HexNibble(hex[2 * i + 1]) * 16 + HexNibble(hex[2 * i + 2]))
             % ByteMod
        ELSE 0]

----------------------------------------------------------------------------
(* The pure functions, each applied to an input drawn in the initial state. *)

\* Public keys: every number of leading zero bits 0 .. 256 (256 is the
\* all-zero key) with three kinds of tail, and the keys of the unit tests.
Fills == {0, 165, 255}

KeyInputs ==
    {KeyFrom(z, fill) : z \in 0 .. (8 * PublicKeySize), fill \in Fills}
    \cup {TestPublicKey, CompareKey1, CompareKey2, CompareKey3}

\* Pairs of keys to compare.
ComparedKeys ==
    {KeyFrom(z, 165) : z \in {0, 1, 7, 8, 9, 127, 128, 255, 256}}
    \cup {CompareKey1, CompareKey2, CompareKey3}

\* Seeds: t trailing 0xFF bytes, before them a byte v that is not 0xFF,
\* and above it bytes hi.
SeedWith(t, v, hi) ==
    [i \in 1 .. SeedSize |->
        IF i > SeedSize - t THEN ByteMod - 1
        ELSE IF i = SeedSize - t THEN v
        ELSE hi]

SeedInputs ==
    {SeedWith(t, v, hi) : t \in 0 .. SeedSize, v \in {0, 127, 254},
                          hi \in {0, 255}}

\* Addresses: the 16-bit groups in zero are zero, the others hold the
\* bytes pair[1], pair[2].
AddrWith(zero, pair) ==
    [i \in 1 .. AddrSize |->
        IF ((i - 1) \div BYTES_PER_BLOCK) \in zero THEN 0
        ELSE pair[((i - 1) % BYTES_PER_BLOCK) + 1]]

AddrInputs ==
    {AddrWith(zero, pair) : zero \in SUBSET (0 .. (BLOCKS_COUNT - 1)),
                            pair \in {<<0, 1>>, <<1, 0>>, <<255, 255>>}}

\* Candidates with chosen scores; the key material is whatever keys says.
Scores == [zero_bits : 0 .. MaxScore, ipv6_zero_blocks : 0 .. MaxScore]

KeysOf(public_key) ==
    [public_key |-> public_key,
     secret_key |-> Zeros(SeedSize) \o public_key,
     seed |-> Zeros(SeedSize)]

CandidateWith(sc, public_key) ==
    [keys |-> KeysOf(public_key), addr |-> Zeros(AddrSize),
     zero_bits |-> sc.zero_bits, ipv6_zero_blocks |-> sc.ipv6_zero_blocks]

\* The candidate of a public key, scored as the program scores it.
CandidateOf(public_key) ==
    LET s == ScoreKey(public_key) IN
    [keys |-> KeysOf(public_key), addr |-> s.addr,
     zero_bits |-> s.zero_bits, ipv6_zero_blocks |-> s.ipv6_zero_blocks]

\* Byte sequences of the lengths 0, 1, 2, 7, 32 and 64: byte i is
\* first + i * step modulo 256, so that every byte value occurs.
BytesWith(n, first, step) ==
    [i \in 1 .. n |-> (first + (i - 1) * step) % ByteMod]

HexInputs ==
    {BytesWith(1, first, 0) : first \in 0 .. (ByteMod - 1)}
    \cup {BytesWith(n, first, step) :
             n \in {0, 2, 7, PublicKeySize, SecretKeySize},
             first \in {0, 9, 160, 255}, step \in {1, 17, 29}}

ProbeInputs ==
    [op : {"Increment"}, done : {FALSE}, seed : SeedInputs]
    \cup [op : {"Hex"}, done : {FALSE}, bytes : HexInputs]
    \cup [op : {"AddrForKey"}, done : {FALSE}, key : KeyInputs]
    \cup [op : {"LeadingZeroBits"}, done : {FALSE}, key : KeyInputs]
    \cup [op : {"AddressZeroBlocks"}, done : {FALSE}, addr : AddrInputs]
    \cup [op : {"IsBetter"}, done : {FALSE}, a : Scores, b : Scores,
          c : Scores, ipv6_nice : BOOLEAN, swap : BOOLEAN]
    \cup [op : {"CompareKeys"}, done : {FALSE}, key1 : ComparedKeys,
          key2 : ComparedKeys]

\* ++seed
CallIncrement ==
    /\ probe.op = "Increment" /\ ~probe.done
    /\ probe' = [op |-> "Increment", done |-> TRUE, seed |-> probe.seed,
                 out |-> Increment(probe.seed)]
    /\ UNCHANGED <<ndebug, tsq, sysvars>>

\* AddrForKey(key): returns the address, or ends in the failed assertion.
CallAddrForKey ==
    /\ probe.op = "AddrForKey" /\ ~probe.done
    /\ probe' = [op |-> "AddrForKey", done |-> TRUE, key |-> probe.key,
                 aborted |-> AddrForKeyAborts(probe.key),
                 out |-> IF AddrForKeyAborts(probe.key)
                         THEN <<>> ELSE AddrForKey(probe.key)]
    /\ UNCHANGED <<ndebug, tsq, sysvars>>

\* LeadingZeroBits(key)
CallLeadingZeroBits ==
    /\ probe.op = "LeadingZeroBits" /\ ~probe.done
    /\ probe' = [op |-> "LeadingZeroBits", done |-> TRUE, key |-> probe.key,
                 out |-> LeadingZeroBits(probe.key)]
    /\ UNCHANGED <<ndebug, tsq, sysvars>>

\* AddressZeroBlocks(addr)
CallAddressZeroBlocks ==
    /\ probe.op = "AddressZeroBlocks" /\ ~probe.done
    /\ probe' = [op |-> "AddressZeroBlocks", done |-> TRUE,
                 addr |-> probe.addr, out |-> AddressZeroBlocks(probe.addr)]
    /\ UNCHANGED <<ndebug, tsq, sysvars>>

\* x.IsBetter(y, ipv6_nice) for every pair x, y of three candidates; swap
\* exchanges the key material the candidates carry.
CallIsBetter ==
    /\ probe.op = "IsBetter" /\ ~probe.done
    /\ LET k == IF probe.swap
                THEN [a |-> CompareKey1, b |-> TestPublicKey,
                      c |-> CompareKey2]
                ELSE [a |-> TestPublicKey, b |-> CompareKey1,
                      c |-> CompareKey2]
           cand == [x \in {"a", "b", "c"} |-> CandidateWith(probe[x], k[x])]
       IN  probe' = [op |-> "IsBetter", done |-> TRUE, a |-> probe.a,
                     b |-> probe.b, c |-> probe.c,
                     ipv6_nice |-> probe.ipv6_nice, swap |-> probe.swap,
                     out |-> [x \in {"a", "b", "c"} |->
                                [y \in {"a", "b", "c"} |->
                                   IsBetter(cand[x], cand[y],
                                            probe.ipv6_nice)]]]
    /\ UNCHANGED <<ndebug, tsq, sysvars>>

\* The candidates of two keys compared by leading zero bits
\* (ipv6_nice = false), in both directions.
CallCompareKeys ==
    /\ probe.op = "CompareKeys" /\ ~probe.done
    /\ LET c1 == CandidateOf(probe.key1)
           c2 == CandidateOf(probe.key2)
       IN  probe' = [op |-> "CompareKeys", done |-> TRUE,
                     key1 |-> probe.key1, key2 |-> probe.key2,
                     better12 |-> IsBetter(c1, c2, FALSE),
                     better21 |-> IsBetter(c2, c1, FALSE)]
    /\ UNCHANGED <<ndebug, tsq, sysvars>>

FnInit ==
    /\ ndebug \in BOOLEAN
    /\ probe \in ProbeInputs
    /\ tsq = NoCalls
    /\ settings_ = [threads_count |-> 1, max_duration |-> 0,
                    target_leading_zeros |-> 0, verbose |-> FALSE,
                    ipv6_nice |-> FALSE]
    /\ SysInit

\* BytesToHex(bytes), then HexToBytes<N> of the string, N the length
CallHex ==
    /\ probe.op = "Hex" /\ ~probe.done
    /\ LET hex == BytesToHex(probe.bytes) IN
       probe' = [op |-> "Hex", done |-> TRUE, bytes |-> probe.bytes,
                 hex |-> hex, back |-> HexToBytes(Len(probe.bytes), hex)]
    /\ UNCHANGED <<ndebug, tsq, sysvars>>

FnNext ==
    \/ CallHex
    \/ CallIncrement
    \/ CallAddrForKey
    \/ CallLeadingZeroBits
    \/ CallAddressZeroBlocks
    \/ CallIsBetter
    \/ CallCompareKeys

FnSpec == FnInit /\ [][FnNext]_vars

----------------------------------------------------------------------------
(* Reference definitions the properties are stated with.                   *)

\* "Better" as a relation on the two scores alone.
RefBetter(a, b, mode_nice) ==
    IF mode_nice
    THEN \/ a.ipv6_zero_blocks > b.ipv6_zero_blocks
         \/ /\ a.ipv6_zero_blocks = b.ipv6_zero_blocks
            /\ a.zero_bits > b.zero_bits
    ELSE a.zero_bits > b.zero_bits

\* bytes + k as a big-endian number modulo 256^Len(bytes): schoolbook
\* addition, the carry moving from the last byte to byte 0.
RECURSIVE RefAddFrom(_, _, _)
RefAddFrom(bytes, i, carry) ==
    IF i = 0 THEN bytes
    ELSE LET t == bytes[i] + carry IN
         RefAddFrom([bytes EXCEPT ![i] = t % ByteMod], i - 1, t \div ByteMod)

RefAdd(bytes, k) == RefAddFrom(bytes, Len(bytes), k)

\* The number of leading bits of bytes that equal v.
RefLeading(bytes, v) ==
    Cardinality({n \in 0 .. (8 * Len(bytes) - 1) :
                    \A m \in 0 .. n : BitAt(bytes, m) = v})

\* Byte j (0-based) of the bits of bytes that follow bit number skip - 1,
\* packed MSB-first; 0 when those 8 bits are not all there.
RefPacked(bytes, skip, j) ==
    LET first == skip + 8 * j IN
    IF first + 7 > 8 * Len(bytes) - 1 THEN 0
    ELSE 128 * BitAt(bytes, first) + 64 * BitAt(bytes, first + 1)
         + 32 * BitAt(bytes, first + 2) + 16 * BitAt(bytes, first + 3)
         + 8 * BitAt(bytes, first + 4) + 4 * BitAt(bytes, first + 5)
         + 2 * BitAt(bytes, first + 6) + BitAt(bytes, first + 7)

\* The address the derivation is specified to give for a public key.
RefAddr(public_key) ==
    LET inv == Inverted(public_key)
        ones == RefLeading(inv, 1)
    IN  [i \in 1 .. AddrSize |->
            IF i = 1 THEN 2
            ELSE IF i = 2 THEN ones
            ELSE RefPacked(inv, ones + 1, i - 3)]

\* Group g (0 .. 7) of an address is zero.
RefGroupZero(addr, g) == addr[2 * g + 1] = 0 /\ addr[2 * g + 2] = 0

\* The longest run of zero groups among groups 1 .. 7.
RefZeroRun(addr) ==
    LET runs == {n \in 0 .. 7 :
                    \E first \in 1 .. 7 :
                        /\ first + n - 1 <= 7
                        /\ \A g \in first .. (first + n - 1) :
                              RefGroupZero(addr, g)}
    IN  CHOOSE n \in runs : \A m \in runs : m <= n

----------------------------------------------------------------------------
(* C1 *)

\* C1: a tick of Run takes at most one item out of the queue; when the
\* queue is empty global_best_ stays; when the front item is better than
\* global_best_ under the mode it becomes global_best_; when it is not
\* better (equal scores included) global_best_ stays.  No other step
\* changes global_best_ or takes an item out of the queue.
C1_TickStep ==
    /\ Len(queue_') >= Len(queue_) - 1
    /\ (global_best_' # global_best_ \/ Len(queue_') < Len(queue_)) => Tick
    /\ Tick =>
        IF queue_ = <<>>
        THEN queue_' = <<>> /\ global_best_' = global_best_
        ELSE /\ queue_' = Tail(queue_)
             /\ IF RefBetter(Head(queue_), global_best_, settings_.ipv6_nice)
                THEN global_best_' = Head(queue_)
                ELSE global_best_' = global_best_

C1_TickDrainsOne == [][C1_TickStep]_vars

\* C1 witness: with leading zero bits deciding, one worker's candidate was
\* adopted and reported, another worker's candidate with the same number of
\* leading zero bits was popped and left global_best_ as it was.
C1_Witness ==
    /\ ~settings_.ipv6_nice
    /\ queue_ = <<>>
    /\ Len(reports) = 1
    /\ global_best_.zero_bits > 0
    /\ \E w \in Threads :
          /\ workers_[w].local_best.keys.public_key
                # global_best_.keys.public_key
          /\ workers_[w].local_best.zero_bits = global_best_.zero_bits

----------------------------------------------------------------------------
(* C2, C3 *)

ThreeNames == {"a", "b", "c"}

\* C2: every comparison of two candidates gives what the two scores give:
\* more leading zero bits in the one mode, more zero groups or as many and
\* more leading zero bits in the other; the key material has no say.
C2_IsBetterByScores ==
    (probe.op = "IsBetter" /\ probe.done) =>
        \A x \in ThreeNames, y \in ThreeNames :
            probe.out[x][y] = RefBetter(probe[x], probe[y], probe.ipv6_nice)

\* C2 witness: zero groups deciding, a and b tie on them and a has more
\* leading zero bits: a is better than b and b is not better than a.
C2_Witness ==
    /\ probe.op = "IsBetter" /\ probe.done /\ probe.ipv6_nice
    /\ probe.a.ipv6_zero_blocks = probe.b.ipv6_zero_blocks
    /\ probe.a.zero_bits > probe.b.zero_bits
    /\ probe.out["a"]["b"] /\ ~probe.out["b"]["a"]

\* C3: IsBetter is irreflexive in both modes and candidates with equal
\* scores are not better either way; with leading zero bits deciding it is
\* asymmetric and transitive, two candidates are incomparable exactly when
\* their leading zero bits are equal, and incomparability is transitive.
C3_StrictWeakOrder ==
    (probe.op = "IsBetter" /\ probe.done) =>
        LET lt(x, y) == probe.out[x][y]
            inc(x, y) == ~lt(x, y) /\ ~lt(y, x)
        IN  /\ \A x \in ThreeNames : ~lt(x, x)
            /\ \A x \in ThreeNames, y \in ThreeNames :
                  probe[x] = probe[y] => inc(x, y)
            /\ ~probe.ipv6_nice =>
                 /\ \A x \in ThreeNames, y \in ThreeNames :
                       lt(x, y) => ~lt(y, x)
                 /\ \A x \in ThreeNames, y \in ThreeNames, z \in ThreeNames :
                       (lt(x, y) /\ lt(y, z)) => lt(x, z)
                 /\ \A x \in ThreeNames, y \in ThreeNames :
                       inc(x, y) <=> probe[x].zero_bits = probe[y].zero_bits
                 /\ \A x \in ThreeNames, y \in ThreeNames, z \in ThreeNames :
                       (inc(x, y) /\ inc(y, z)) => inc(x, z)

\* C3 witness: leading zero bits deciding, a better than b, b better than
\* c, a better than c, and none the other way round.
C3_Witness ==
    /\ probe.op = "IsBetter" /\ probe.done /\ ~probe.ipv6_nice
    /\ probe.out["a"]["b"] /\ probe.out["b"]["c"] /\ probe.out["a"]["c"]
    /\ ~probe.out["b"]["a"] /\ ~probe.out["c"]["b"] /\ ~probe.out["c"]["a"]

----------------------------------------------------------------------------
(* C4, C5 *)

\* C4: a worker's generator draws a random seed once, for its first
\* candidate, and never again; the first candidate is generated from the
\* seed drawn, not advanced; every later candidate is generated from the
\* previous candidate's seed advanced exactly once.
C4_Counts ==
    \A w \in Threads :
        LET g == workers_[w].gen
            n == workers_[w].generated
        IN  /\ g.randoms = (IF n = 0 THEN 0 ELSE 1)
            /\ g.increments = (IF n = 0 THEN 0 ELSE n - 1)

C4_Step ==
    \A w \in Threads :
        LET old == workers_[w]
            new == workers_'[w]
        IN  (w \in DOMAIN workers_' /\ new.generated # old.generated) =>
                /\ new.generated = old.generated + 1
                /\ new.gen.keys_.secret_key
                     = new.gen.keys_.seed \o new.gen.keys_.public_key
                /\ IF old.generated = 0
                   THEN /\ new.gen.randoms = old.gen.randoms + 1
                        /\ new.gen.increments = old.gen.increments
                        /\ new.start_seed \in StartSeeds
                        /\ new.gen.keys_.seed = new.start_seed
                   ELSE /\ new.gen.randoms = old.gen.randoms
                        /\ new.gen.increments = old.gen.increments + 1
                        /\ new.gen.keys_.seed = RefAdd(old.gen.keys_.seed, 1)

C4_ReseedOnce == [][C4_Step /\ C4_Counts']_vars

\* C4 witness: a worker has generated two candidates with one random draw
\* and one advance.
C4_Witness ==
    \E w \in Threads :
        /\ workers_[w].generated = 2
        /\ workers_[w].gen.randoms = 1
        /\ workers_[w].gen.increments = 1

\* start seed + k for every seed a worker can draw and every k a run
\* reaches.
SeedPlus == [s \in StartSeeds |-> [k \in 0 .. MaxKeys |-> RefAdd(s, k)]]

\* The seeds of the candidates worker w has generated so far.
SeedsOf(w) ==
    {SeedPlus[workers_[w].start_seed][k] :
        k \in 0 .. (workers_[w].generated - 1)}

\* C5: the k-th candidate of a worker (k = 0, 1, ...) has the seed
\* start seed + k modulo 2^256, the seeds of one worker's candidates are
\* all different, and every candidate held anywhere (local best, queue,
\* global best) has such a seed.
C5_SeedSequence ==
    LET seeds == [w \in Threads |-> SeedsOf(w)] IN
    /\ \A w \in Threads :
          LET wk == workers_[w] IN
          wk.generated >= 1 =>
              /\ wk.gen.keys_.seed
                    = SeedPlus[wk.start_seed][wk.generated - 1]
              /\ Cardinality(seeds[w]) = wk.generated
              /\ wk.local_best # EmptyCandidate =>
                    wk.local_best.keys.seed \in seeds[w]
    /\ \A i \in 1 .. Len(queue_) :
          \E w \in Threads : queue_[i].keys.seed \in seeds[w]
    /\ global_best_ # EmptyCandidate =>
          \E w \in Threads : global_best_.keys.seed \in seeds[w]

\* C5 witness: a worker that drew the all-0xFF seed has generated its
\* second candidate, from the all-zero seed.
C5_Witness ==
    \E w \in Threads :
        /\ workers_[w].start_seed = AllFF
        /\ workers_[w].generated = 2
        /\ workers_[w].gen.keys_.seed = Zeros(SeedSize)

----------------------------------------------------------------------------
(* C6 *)

\* C6: ++seed is seed + 1 modulo 2^256 with byte 0 most significant: every
\* byte above the last byte that is not 0xFF is unchanged, that byte grows
\* by one, the 0xFF bytes after it become 0, and all 0xFF gives all 0.
C6_IncrementBigEndian ==
    (probe.op = "Increment" /\ probe.done) =>
        LET s == probe.seed
            r == probe.out
            NotFF == {i \in 1 .. SeedSize : s[i] # 255}
        IN  /\ r = RefAdd(s, 1)
            /\ Len(r) = SeedSize
            /\ NotFF = {} => r = Zeros(SeedSize)
            /\ \A i \in NotFF :
                  (\A j \in (i + 1) .. SeedSize : s[j] = 255) =>
                      /\ r[i] = s[i] + 1
                      /\ \A j \in 1 .. (i - 1) : r[j] = s[j]
                      /\ \A j \in (i + 1) .. SeedSize : r[j] = 0

\* C6 witness: the all-0xFF seed was incremented and is all zero.
C6_Witness ==
    /\ probe.op = "Increment" /\ probe.done
    /\ probe.seed = AllFF
    /\ probe.out = Zeros(SeedSize)

----------------------------------------------------------------------------
(* C7, C8 *)

\* C7: whenever AddrForKey returns, the address is 16 bytes, byte 0 is
\* 0x02, byte 1 is the number of leading 1-bits of the inverted key, and
\* bytes 2..15 are the first 14 bytes of the bits after the first 0-bit,
\* packed MSB-first, zero where there are none.
C7_AddrLayout ==
    (probe.op = "AddrForKey" /\ probe.done /\ ~probe.aborted) =>
        /\ Len(probe.out) = AddrSize
        /\ probe.out = RefAddr(probe.key)

\* The same for every key but the all-zero key (which C7 fails on).
AddrLayoutNonZeroKey ==
    (/\ probe.op = "AddrForKey" /\ probe.done /\ ~probe.aborted
     /\ probe.key # Zeros(PublicKeySize)) =>
        /\ Len(probe.out) = AddrSize
        /\ probe.out = RefAddr(probe.key)
        /\ probe.key = TestPublicKey => probe.out = TestAddress

\* C8: a count of leading 1-bits above 127 ends AddrForKey in the failed
\* check, and no address is returned whose byte 1 is not the true count.
C8_OnesChecked ==
    (probe.op = "AddrForKey" /\ probe.done) =>
        LET ones == RefLeading(Inverted(probe.key), 1) IN
        /\ ones > 127 => probe.aborted
        /\ ~probe.aborted => probe.out[2] = ones

----------------------------------------------------------------------------
(* C9 *)

\* C9: LeadingZeroBits is the number of zero bits before the first one
\* bit, between 0 and 256 and 256 only for the all-zero key; with leading
\* zero bits deciding, a key's candidate is better than another's exactly
\* when it has more of them, and keys with the same number are not better
\* than each other.
C9_LeadingZeroBits ==
    /\ (probe.op = "LeadingZeroBits" /\ probe.done) =>
          /\ probe.out = RefLeading(probe.key, 0)
          /\ probe.out \in 0 .. (8 * PublicKeySize)
          /\ probe.out = 8 * PublicKeySize
                <=> probe.key = Zeros(PublicKeySize)
    /\ (probe.op = "CompareKeys" /\ probe.done) =>
          LET n1 == RefLeading(probe.key1, 0)
              n2 == RefLeading(probe.key2, 0)
          IN  /\ probe.better12 <=> n1 > n2
              /\ probe.better21 <=> n2 > n1
              /\ n1 = n2 => (~probe.better12 /\ ~probe.better21)

\* C9 witness: the unit test's keys 00000020... and 00000034..., 26 leading
\* zero bits each, compared: neither is better.
C9_Witness ==
    /\ probe.op = "CompareKeys" /\ probe.done
    /\ probe.key1 = CompareKey1 /\ probe.key2 = CompareKey2
    /\ LeadingZeroBits(probe.key1) = 26 /\ LeadingZeroBits(probe.key2) = 26
    /\ ~probe.better12 /\ ~probe.better21

----------------------------------------------------------------------------
(* C10 *)

\* C10: AddressZeroBlocks is the length of the longest run of zero groups
\* among groups 1..7, between 0 and 7, whatever group 0 holds.
C10_ZeroBlocks ==
    (probe.op = "AddressZeroBlocks" /\ probe.done) =>
        /\ probe.out = RefZeroRun(probe.addr)
        /\ probe.out \in 0 .. 7
        /\ \A b0 \in {0, 2}, b1 \in {0, 255} :
              AddressZeroBlocks([probe.addr EXCEPT ![1] = b0, ![2] = b1])
                 = probe.out

\* C10 witness: groups 0 and 1 are zero, group 2 is not, no other group is
\* zero: the result is 1.
C10_Witness ==
    /\ probe.op = "AddressZeroBlocks" /\ probe.done
    /\ RefGroupZero(probe.addr, 0) /\ RefGroupZero(probe.addr, 1)
    /\ \A g \in 2 .. 7 : ~RefGroupZero(probe.addr, g)
    /\ probe.out = 1

----------------------------------------------------------------------------
(* C11 *)

\* C11, one step: a worker's local best changes only to the candidate it
\* has just generated, only when that one is better under the mode, and
\* is then published; the queue grows only by a worker's push of its new
\* local best.
C11_Step ==
    /\ \A w \in Threads :
          LET old == workers_[w]
              new == workers_'[w]
          IN  w \in DOMAIN workers_' =>
                /\ new.local_best # old.local_best =>
                      /\ RefBetter(new.local_best, old.local_best,
                                   settings_.ipv6_nice)
                      /\ new.local_best.keys = new.gen.keys_
                      /\ new.generated = old.generated + 1
                      /\ new.publishing
                /\ (new.publishing /\ ~old.publishing) =>
                      new.local_best # old.local_best
    /\ Len(queue_') > Len(queue_) =>
          \E w \in Threads :
              /\ workers_[w].publishing /\ ~workers_'[w].publishing
              /\ workers_'[w].local_best = workers_[w].local_best
              /\ queue_' = Append(queue_, workers_[w].local_best)

\* C11, the published sequence of a run with one worker: what is in the
\* queue is in strictly increasing order and better than global_best_,
\* which came out of it before; its last item is the worker's local best.
C11_OneWorker ==
    Len(workers_) = 1 =>
        /\ \A i \in 1 .. Len(queue_), j \in 1 .. Len(queue_) :
              i < j => RefBetter(queue_[j], queue_[i], settings_.ipv6_nice)
        /\ \A i \in 1 .. Len(queue_) :
              RefBetter(queue_[i], global_best_, settings_.ipv6_nice)
        /\ (queue_ # <<>> /\ ~workers_[1].publishing) =>
              queue_[Len(queue_)] = workers_[1].local_best

\* C11: a worker publishes only a candidate that is better than its local
\* best, and publishes it as its new local best; what one worker publishes
\* is strictly increasing; a local best is never replaced by a candidate
\* that is not better.
C11_PublishImproved == [][C11_Step /\ C11_OneWorker']_vars

\* C11 witness: one worker has published two candidates, the second
\* better than the first, and both are in the queue.
C11_Witness ==
    /\ Len(workers_) = 1
    /\ Len(queue_) = 2
    /\ ~workers_[1].publishing
    /\ RefBetter(queue_[2], queue_[1], settings_.ipv6_nice)
    /\ queue_[2] = workers_[1].local_best

----------------------------------------------------------------------------
(* C12 *)

\* C12, one step: stop_ stays set; with stop_ set the loop body does
\* nothing more (no pop, no new global best, no report, no clock reading);
\* Run leaves its loop only with stop_ set, and in that step every worker
\* is requested to stop; no worker is requested to stop in any other step;
\* Run returns only out of the grace period.
C12_Step ==
    /\ stop_ => stop_'
    /\ stop_ =>
          /\ Len(queue_') >= Len(queue_)
          /\ global_best_' = global_best_
          /\ reports' = reports
          /\ manager'.now = manager.now
    /\ (manager.pc = "loop" /\ manager'.pc # "loop") =>
          /\ stop_
          /\ manager'.pc = "grace"
          /\ \A w \in DOMAIN workers_' : workers_'[w].stop_requested
    /\ \A w \in Threads :
          (w \in DOMAIN workers_' /\ workers_'[w].stop_requested
             /\ ~workers_[w].stop_requested) =>
                (manager.pc = "loop" /\ manager'.pc = "grace")
    /\ (manager'.pc = "done" /\ manager.pc # "done") => manager.pc = "grace"

\* C12: once stop_ is set, by Run itself or by Stop() from outside, at any
\* time from before the first tick on, it stays set, no further tick
\* starts, every worker is requested to stop as Run leaves its loop, and
\* Run returns after the grace period.
C12_StopHandled ==
    /\ [][C12_Step]_vars
    /\ (stop_ ~> manager.pc = "done")

\* C12 witness: neither a duration limit nor a target is set, Stop() came
\* before any tick had an effect, every worker was requested to stop and
\* Run has returned.
C12_Witness ==
    /\ settings_.max_duration = 0 /\ settings_.target_leading_zeros = 0
    /\ stop_
    /\ manager.pc = "done" /\ manager.now = 0
    /\ reports = <<>> /\ global_best_ = EmptyCandidate
    /\ workers_ # <<>>
    /\ \A w \in Threads : workers_[w].stop_requested

----------------------------------------------------------------------------
(* C13 *)

\* The clock reading now (half seconds) is more than seconds seconds.
RefExceeds(now, seconds) == now > 2 * seconds

\* C13: with a duration limit B > 0, a tick whose clock reading exceeds B
\* seconds requests stop, a tick whose reading does not exceed B requests
\* stop only for the target; with B = 0 a tick requests stop only for the
\* target.
C13_Step ==
    Tick =>
        LET B == settings_.max_duration
            for_target == /\ settings_.target_leading_zeros # 0
                          /\ global_best_'.zero_bits
                                >= settings_.target_leading_zeros
        IN  /\ (B # 0 /\ RefExceeds(manager'.now, B)) => stop_'
            /\ (B # 0 /\ ~RefExceeds(manager'.now, B) /\ stop_') => for_target
            /\ (B = 0 /\ stop_') => for_target

C13_TimeBudget == [][C13_Step]_vars

\* What the code does instead: the reading is cut to whole seconds first,
\* so the tick that requests stop is the first one at B + 1 seconds or
\* later.
TimeBudgetWholeSeconds ==
    [][Tick =>
        LET B == settings_.max_duration
            for_target == /\ settings_.target_leading_zeros # 0
                          /\ global_best_'.zero_bits
                                >= settings_.target_leading_zeros
        IN  /\ (B # 0 /\ manager'.now >= 2 * (B + 1)) => stop_'
            /\ (B # 0 /\ manager'.now < 2 * (B + 1) /\ stop_') => for_target
            /\ (B = 0 /\ stop_') => for_target]_vars

----------------------------------------------------------------------------
(* C14 *)

\* C14: with a target T > 0, a tick at whose end global_best_.zero_bits
\* is at least T requests stop, and a tick at whose end it is below T
\* requests stop only for the duration limit; with T = 0 a tick requests
\* stop only for the duration limit.  The mode has no part in it.
C14_Step ==
    Tick =>
        LET T == settings_.target_leading_zeros
            for_time == /\ settings_.max_duration # 0
                        /\ WholeSeconds(manager'.now) > settings_.max_duration
        IN  /\ (T # 0 /\ global_best_'.zero_bits >= T) => stop_'
            /\ (T # 0 /\ global_best_'.zero_bits < T /\ stop_') => for_time
            /\ (T = 0 /\ stop_') => for_time

C14_TargetThreshold == [][C14_Step]_vars

\* C14 witness: zero groups deciding, no duration limit, target 1: the
\* global best has a leading zero bit, was reported, and stop_ is set with
\* Run still in its loop.
C14_Witness ==
    /\ settings_.ipv6_nice
    /\ settings_.max_duration = 0
    /\ settings_.target_leading_zeros = 1
    /\ global_best_.zero_bits >= 1
    /\ Len(reports) = 1
    /\ stop_
    /\ manager.pc = "loop"

----------------------------------------------------------------------------
(* C15 *)

\* Some worker has generated a key with at least the target's number of
\* leading zero bits.
TargetKeyGenerated ==
    \E w \in Threads :
        /\ workers_[w].generated >= 1
        /\ LeadingZeroBits(workers_[w].gen.keys_.public_key)
              >= settings_.target_leading_zeros

\* Run has returned and the last report is a key with at least the
\* target's number of leading zero bits.
TargetKeyReported ==
    /\ manager.pc = "done"
    /\ stop_
    /\ reports # <<>>
    /\ LeadingZeroBits(reports[Len(reports)].pub)
          >= settings_.target_leading_zeros

TargetReachedByBits ==
    (~settings_.ipv6_nice /\ TargetKeyGenerated) ~> TargetKeyReported

----------------------------------------------------------------------------
(* C16 *)

\* The state that follows each worker state.
RefNextState ==
    [Created |-> "Running", Running |-> "Stopping", Stopping |-> "Stopped",
     Stopped |-> "Stopped"]

\* C16, one step of worker w: its state moves one place along Created,
\* Running, Stopping, Stopped; it leaves Running only with a stop request
\* and no iteration in progress; it generates and publishes only while
\* Running, and the publish of an iteration in progress is the push of its
\* local best, stop request or not.
C16_Step ==
    \A w \in Threads :
        LET old == workers_[w]
            new == workers_'[w]
        IN  w \in DOMAIN workers_' =>
              /\ new.state # old.state =>
                    /\ new.state = RefNextState[old.state]
                    /\ new.generated = old.generated
                    /\ new.local_best = old.local_best
                    /\ ~old.publishing /\ ~new.publishing
              /\ (old.state = "Running" /\ new.state = "Stopping") =>
                    old.stop_requested
              /\ (new.generated # old.generated \/ new.gen # old.gen
                    \/ new.local_best # old.local_best
                    \/ new.publishing # old.publishing) =>
                    (old.state = "Running" /\ new.state = "Running")
              /\ new.generated # old.generated => ~old.stop_requested
              /\ (old.publishing /\ ~new.publishing) =>
                    queue_' = Append(queue_, old.local_best)

\* C16, every state: a worker in Created, Stopping or Stopped has no
\* iteration in progress, and every item in the queue is a whole
\* candidate: a key pair of its seed with its address and both scores.
C16_Whole ==
    /\ \A w \in Threads :
          workers_[w].publishing => workers_[w].state = "Running"
    /\ \A i \in 1 .. Len(queue_) :
          LET item == queue_[i] IN
          /\ item.keys.public_key = SeedKeypairPublic(item.keys.seed)
          /\ item.keys.secret_key = item.keys.seed \o item.keys.public_key
          /\ item = MakeCandidate(item.keys)

\* C16: a worker goes through Created, Running, Stopping, Stopped in this
\* order, sees a stop request only at the top of an iteration, finishes an
\* iteration it has started, neither generates nor publishes once it is
\* Stopping, and puts only whole candidates into the queue.
C16_WorkerStates == [][C16_Step /\ C16_Whole']_vars

\* C16 witness: a stop request has reached a worker between the update of
\* its local best and the push, and the worker is still Running.
C16_Witness ==
    \E w \in Threads :
        /\ workers_[w].stop_requested
        /\ workers_[w].publishing
        /\ workers_[w].state = "Running"
        /\ manager.pc = "done"

----------------------------------------------------------------------------
(* C17 *)

\* C17: when Run returns, no candidate that is still in the queue is
\* better than global_best_, the last one reported.
C17_Step ==
    (manager.pc # "done" /\ manager'.pc = "done") =>
        \A i \in 1 .. Len(queue_') :
            ~RefBetter(queue_'[i], global_best_', settings_.ipv6_nice)

C17_AllReported == [][C17_Step]_vars

\* What holds instead: global_best_ is the last candidate reported, and
\* no candidate taken out of the queue was better than the global best of
\* its tick (C1); candidates still in the queue when the loop ends are
\* never looked at.
LastReportIsGlobalBest ==
    /\ reports = <<>> <=> global_best_ = EmptyCandidate
    /\ reports # <<>> =>
          /\ reports[Len(reports)].pub = global_best_.keys.public_key
          /\ reports[Len(reports)].priv = global_best_.keys.secret_key

----------------------------------------------------------------------------
(* C18 *)

\* A step that replaces global_best_ writes one report, of the new global
\* best's secret key, public key and address, with the rate only in
\* verbose mode, and no other step writes one; with_header says whether
\* the report must have the line with the elapsed time and the keys tried.
ReportStep(with_header) ==
    /\ (reports' # reports) <=> (global_best_' # global_best_)
    /\ reports' # reports =>
          /\ Len(reports') = Len(reports) + 1
          /\ \A i \in 1 .. Len(reports) : reports'[i] = reports[i]
          /\ LET r == reports'[Len(reports')] IN
             /\ r.priv = global_best_'.keys.secret_key
             /\ r.pub = global_best_'.keys.public_key
             /\ r.ip = global_best_'.addr
             /\ r.rate # -1 => settings_.verbose
             /\ with_header =>
                  /\ r.header
                  /\ r.generated_keys_count = SumGenerated(Len(workers_))
                  /\ r.elapsed = WholeSeconds(manager'.now)

\* C18: a report is written in a tick exactly when the tick replaced
\* global_best_, also in a tick that goes on to request stop; every report
\* has the elapsed time, the keys tried by all workers, the secret key,
\* the public key and the address; the rate is there only in verbose mode.
C18_Reports == [][ReportStep(TRUE)]_vars

\* What the code does: the line with the elapsed time and the keys tried
\* is written only from the first whole second on.
ReportsHeaderAfterOneSecond ==
    /\ [][ReportStep(WholeSeconds(manager'.now) > 0)]_vars
    /\ [][reports' # reports =>
            (reports'[Len(reports')].header
                <=> WholeSeconds(manager'.now) > 0)]_vars

----------------------------------------------------------------------------
(* C19 *)

\* The code has no capacity for queue_.  The claim is stated for one the
\* runs of this model can exceed: one less than the keys they generate.
RefCapacity == MaxKeys - 1

\* C19: queue_ never holds more than a fixed number of items, and a push
\* that finds it full leaves queue_ and the worker's local best as they
\* are.
C19_Step ==
    /\ Len(queue_') <= RefCapacity
    /\ \A w \in Threads :
          (/\ w \in DOMAIN workers_'
           /\ workers_[w].publishing /\ ~workers_'[w].publishing
           /\ Len(queue_) >= RefCapacity) =>
              /\ queue_' = queue_
              /\ workers_'[w].local_best = workers_[w].local_best

C19_Bounded == [][C19_Step]_vars

\* What the code does: every push appends, whatever the length.
PushAlwaysAppends ==
    [][\A w \in Threads :
          (/\ w \in DOMAIN workers_'
           /\ workers_[w].publishing /\ ~workers_'[w].publishing) =>
              queue_' = Append(queue_, workers_[w].local_best)]_vars

----------------------------------------------------------------------------
(* ThreadSafeQueue under concurrent callers (thread_safe_queue.h).  Every   *)
(* member function is split at the points where another thread can run:    *)
(* taking mutex_, the statements under it, releasing it, notify_one.        *)

MaxCallers == 3     \* threads calling the queue's member functions
MaxPushes == 3      \* pushes made where their record is kept

Callers == 1 .. MaxCallers

Items == 1 .. MaxKeys

Ops == {"push_back", "pop_front", "pop_front_for", "try_pop_front", "empty"}

\* a thread outside every member function; inside one, value is the
\* argument of push_back, or what a pop is about to return (0: no value)
NoCall == [op |-> "none", pc |-> "idle", value |-> 0, timed_out |-> FALSE]

\* pushes called whose queue_.push has not run yet
PendingPushes(q) ==
    Cardinality({t \in DOMAIN q.call :
                    q.call[t].op = "push_back" /\ q.call[t].pc \in {"lock", "cs"}})

\* a fault of the lock, for comparison: it is granted while held
CanLock_Always(q) == TRUE

\* std::mutex::lock returns only when no thread owns the mutex
CanLock(q) == q.mutex_ = 0

\* threads blocked in condition_.wait / wait_for
Waiting(q) == {t \in DOMAIN q.call : q.call[t].pc = "waiting"}

\* the predicate of wait and wait_for: [this] { return !queue_.empty(); }
NotEmpty(q) == q # <<>>

\* A thread enters a member function and goes for the mutex.
Call(t) ==
    /\ t \in DOMAIN tsq.call
    /\ tsq.call[t].pc = "idle"
    /\ \E op \in Ops, v \in Items :
          /\ op = "push_back" => Len(queue_) + PendingPushes(tsq) < MaxKeys
          /\ probe.op = "history" =>
                \* the last caller is the consumer, the others produce
                /\ (op = "push_back") = (t < MaxCallers)
                /\ op = "push_back" =>
                      Len(probe.pushed) + PendingPushes(tsq) < MaxPushes
          /\ tsq' = [tsq EXCEPT !.call[t] =
                        [op |-> op, pc |-> "lock",
                         value |-> IF op = "push_back" THEN v ELSE 0,
                         timed_out |-> FALSE]]
    /\ UNCHANGED <<ndebug, probe, sysvars>>

\* lock_guard / unique_lock constructor, and the re-lock when a wait ends
Lock(t) ==
    /\ t \in DOMAIN tsq.call
    /\ tsq.call[t].pc = "lock"
    /\ CanLock(tsq)
    /\ tsq' = [tsq EXCEPT !.mutex_ = t, !.call[t].pc = "cs"]
    /\ UNCHANGED <<ndebug, probe, sysvars>>

\* The record of what was pushed and popped, kept where probe asks for
\* it: t pushed v, t popped v.
Recorded(p, kind, t, v) ==
    IF p.op # "history" THEN p
    ELSE IF kind = "push"
    THEN [p EXCEPT !.pushed = Append(@, <<t, v>>)]
    ELSE [p EXCEPT !.popped = Append(@, <<t, v>>)]

\* The statements between taking the mutex and releasing it.
Access(t) ==
    /\ t \in DOMAIN tsq.call
    /\ tsq.call[t].pc = "cs"
    /\ LET c == tsq.call[t]
       IN  CASE c.op = "push_back" ->
                  /\ queue_' = push_back(queue_, c.value)
                  /\ tsq' = [tsq EXCEPT !.call[t].pc = "unlock"]
                  /\ probe' = Recorded(probe, "push", t, c.value)
             [] c.op = "try_pop_front" ->
                  LET r == try_pop_front(queue_) IN
                  /\ queue_' = r.queue
                  /\ tsq' = [tsq EXCEPT !.call[t].pc = "unlock",
                                        !.call[t].value =
                                            IF r.has_value THEN r.value
                                            ELSE 0]
                  /\ probe' = IF r.has_value
                              THEN Recorded(probe, "pop", t, r.value)
                              ELSE probe
             [] c.op = "empty" ->
                  /\ queue_' = queue_
                  /\ tsq' = [tsq EXCEPT !.call[t].pc = "unlock"]
                  /\ probe' = probe
             [] c.op \in {"pop_front", "pop_front_for"} ->
                  IF NotEmpty(queue_)
                  THEN \* T value = std::move(queue_.front()); queue_.pop();
                       /\ queue_' = Tail(queue_)
                       /\ tsq' = [tsq EXCEPT !.call[t].pc = "unlock",
                                             !.call[t].value = Head(queue_)]
                       /\ probe' = Recorded(probe, "pop", t, Head(queue_))
                  ELSE IF c.timed_out
                  THEN \* wait_for returned false: return std::nullopt
                       /\ queue_' = queue_
                       /\ tsq' = [tsq EXCEPT !.call[t].pc = "unlock"]
                       /\ probe' = probe
                  ELSE \* wait: release the mutex and block, atomically
                       /\ queue_' = queue_
                       /\ tsq' = [tsq EXCEPT !.mutex_ = 0,
                                             !.call[t].pc = "waiting"]
                       /\ probe' = probe
    /\ UNCHANGED <<ndebug, settings_, workers_, global_best_, stop_,
                   manager, reports>>

\* the lock object's destructor; push_back goes on to notify_one
Unlock(t) ==
    /\ t \in DOMAIN tsq.call
    /\ tsq.call[t].pc = "unlock"
    /\ tsq' = [tsq EXCEPT !.mutex_ = 0,
                          !.call[t] = IF @.op = "push_back"
                                      THEN [@ EXCEPT !.pc = "notify"]
                                      ELSE NoCall]
    /\ UNCHANGED <<ndebug, probe, sysvars>>

\* a fault, for comparison: the notification wakes nobody
Notify_Lost(t) ==
    /\ t \in DOMAIN tsq.call
    /\ tsq.call[t].pc = "notify"
    /\ tsq' = [tsq EXCEPT !.call[t] = NoCall]
    /\ UNCHANGED <<ndebug, probe, sysvars>>

\* condition_.notify_one(): one waiting thread, if there is one, is woken
\* and goes for the mutex again.
Notify(t) ==
    /\ t \in DOMAIN tsq.call
    /\ tsq.call[t].pc = "notify"
    /\ IF Waiting(tsq) = {}
       THEN tsq' = [tsq EXCEPT !.call[t] = NoCall]
       ELSE \E u \in Waiting(tsq) :
               tsq' = [tsq EXCEPT !.call[t] = NoCall, !.call[u].pc = "lock"]
    /\ UNCHANGED <<ndebug, probe, sysvars>>

\* a spurious wakeup of wait / wait_for
Spurious(t) ==
    /\ t \in Waiting(tsq)
    /\ tsq' = [tsq EXCEPT !.call[t].pc = "lock"]
    /\ UNCHANGED <<ndebug, probe, sysvars>>

\* pop_front_for only: the timeout of wait_for passes
Timeout(t) ==
    /\ t \in Waiting(tsq)
    /\ tsq.call[t].op = "pop_front_for"
    /\ tsq' = [tsq EXCEPT !.call[t].pc = "lock", !.call[t].timed_out = TRUE]
    /\ UNCHANGED <<ndebug, probe, sysvars>>

QueueInit ==
    /\ ndebug = TRUE
    /\ probe = NoProbe
    /\ tsq = [mutex_ |-> 0, call |-> [t \in Callers |-> NoCall]]
    /\ settings_ = [threads_count |-> 1, max_duration |-> 0,
                    target_leading_zeros |-> 0, verbose |-> FALSE,
                    ipv6_nice |-> FALSE]
    /\ SysInit

QueueNext ==
    \/ \E t \in Callers : Call(t)
    \/ \E t \in Callers : Lock(t)
    \/ \E t \in Callers : Access(t)
    \/ \E t \in Callers : Unlock(t)
    \/ \E t \in Callers : Notify(t)
    \/ \E t \in Callers : Spurious(t)
    \/ \E t \in Callers : Timeout(t)

QueueSpec == QueueInit /\ [][QueueNext]_vars

\* Several producers and one consumer, with the record of every push and
\* pop kept.
QueueHistoryInit ==
    /\ ndebug = TRUE
    /\ probe = [op |-> "history", pushed |-> <<>>, popped |-> <<>>]
    /\ tsq = [mutex_ |-> 0, call |-> [t \in Callers |-> NoCall]]
    /\ settings_ = [threads_count |-> 1, max_duration |-> 0,
                    target_leading_zeros |-> 0, verbose |-> FALSE,
                    ipv6_nice |-> FALSE]
    /\ SysInit

QueueHistorySpec == QueueHistoryInit /\ [][QueueNext]_vars

\* A thread inside a member function goes on running: it executes the
\* statements under the mutex, releases it and notifies; a thread at the
\* lock gets the mutex if it is free again and again.  Nothing makes a
\* thread call the queue, a wait end spuriously or a timeout pass.
QueueFairness ==
    \A t \in Callers :
        /\ SF_vars(Lock(t))
        /\ WF_vars(Access(t))
        /\ WF_vars(Unlock(t))
        /\ WF_vars(Notify(t))

QueueFairSpec == QueueInit /\ [][QueueNext]_vars /\ QueueFairness

----------------------------------------------------------------------------
(* C20 *)

\* threads between taking mutex_ and releasing it, where queue_ is read or
\* changed
InSection(q) == {t \in DOMAIN q.call : q.call[t].pc \in {"cs", "unlock"}}

\* a step that reads or changes queue_ is made by the owner of mutex_
C20_Step ==
    \A t \in Callers :
        (tsq.call[t].pc = "cs" /\ tsq'.call[t].pc # "cs") =>
            /\ tsq.mutex_ = t
            /\ InSection(tsq) = {t}

WorkersShareOnlyQueue ==
    [][\A w \in Threads :
          (/\ w \in DOMAIN workers_'
           /\ [workers_'[w] EXCEPT !.stop_requested = FALSE]
                 # [workers_[w] EXCEPT !.stop_requested = FALSE]) =>
              /\ \A x \in Threads \ {w} : workers_'[x] = workers_[x]
              /\ UNCHANGED <<settings_, global_best_, stop_, manager,
                             reports>>]_vars

----------------------------------------------------------------------------
(* C21 *)

\* One call of try_pop_front by t, from the statement after the lock to the
\* return: no value and the queue as it was when it is empty, else the
\* front item, the queue being that item followed by what is left.
C21_Step ==
    \A t \in Callers :
        (/\ tsq.call[t].op = "try_pop_front"
         /\ tsq.call[t].pc = "cs"
         /\ tsq'.call[t].pc # "cs") =>
            /\ tsq'.call[t].pc = "unlock"
            /\ IF queue_ = <<>>
               THEN tsq'.call[t].value = 0 /\ queue_' = queue_
               ELSE /\ tsq'.call[t].value = Head(queue_)
                    /\ queue_ = <<tsq'.call[t].value>> \o queue_'

\* C21: try_pop_front never waits for an item; on an empty queue it returns
\* no value and leaves the queue as it is; otherwise it returns the front
\* item and removes that item only, the rest keeping its order.
C21_TryPop ==
    /\ [](\A t \in Callers :
             tsq.call[t].op = "try_pop_front" => tsq.call[t].pc # "waiting")
    /\ [][C21_Step]_vars

\* try_pop_front has taken the front of a queue of two different items.
C21_Witness ==
    \E t \in Callers :
        /\ tsq.call[t].op = "try_pop_front"
        /\ tsq.call[t].pc = "unlock"
        /\ tsq.call[t].value # 0
        /\ queue_ # <<>>
        /\ queue_[1] # tsq.call[t].value

----------------------------------------------------------------------------
(* C22 *)

\* One step of pop_front or pop_front_for by t under the mutex: with an item
\* in the queue it returns the front item and removes it; with none it
\* waits, the queue as it was, or, pop_front_for after its timeout only,
\* returns no value, the queue empty as it was.
C22_Step ==
    \A t \in Callers :
        (/\ tsq.call[t].op \in {"pop_front", "pop_front_for"}
         /\ tsq.call[t].pc = "cs"
         /\ tsq'.call[t].pc # "cs") =>
            IF queue_ # <<>>
            THEN /\ tsq'.call[t].pc = "unlock"
                 /\ tsq'.call[t].value = Head(queue_)
                 /\ queue_ = <<tsq'.call[t].value>> \o queue_'
            ELSE /\ queue_' = <<>>
                 /\ tsq'.call[t].value = 0
                 /\ tsq'.call[t].pc =
                       IF tsq.call[t].op = "pop_front_for"
                          /\ tsq.call[t].timed_out
                       THEN "unlock" ELSE "waiting"

\* t is blocked in pop_front or pop_front_for while the queue holds an item
BlockedWithItem(t) ==
    tsq.call[t].pc = "waiting" /\ queue_ # <<>>

\* t is about to return an item
ReturnsItem(t) ==
    /\ tsq.call[t].op \in {"pop_front", "pop_front_for"}
    /\ tsq.call[t].pc = "unlock"
    /\ tsq.call[t].value # 0

\* C22: no wakeup is lost: a consumer blocked in pop_front or pop_front_for
\* while the queue holds an item returns an item unless the others have
\* emptied the queue; pop_front never returns without an item, and
\* pop_front_for returns without one only after its timeout with the queue
\* empty.
C22_NoLostWakeup ==
    /\ [][C22_Step]_vars
    /\ \A t \in Callers :
          BlockedWithItem(t) ~> (ReturnsItem(t) \/ queue_ = <<>>)

\* A consumer is blocked in pop_front, a producer has pushed and released
\* the mutex and is about to notify.
C22_Witness ==
    \E t, u \in Callers :
        /\ tsq.call[t].op = "pop_front" /\ BlockedWithItem(t)
        /\ tsq.call[u].op = "push_back" /\ tsq.call[u].pc = "notify"

----------------------------------------------------------------------------
(* C23 *)

\* C23: every candidate pushed to queue_ is popped and compared with
\* global_best_ by the end of the first tick of Run after its push: a tick
\* leaves nothing in queue_ of what it found there.
C23_StaleOneTick == [][Tick => queue_' = <<>>]_vars

----------------------------------------------------------------------------
(* C24 *)

\* a step of Run's loop: the manager is in the loop, no worker changes and
\* nothing is pushed
LoopStep ==
    /\ manager.pc = "loop" /\ manager'.pc = "loop"
    /\ ~stop_
    /\ workers_' = workers_
    /\ queue_' = try_pop_front(queue_).queue

\* C24: global_best_ is assigned only in a pass of the loop of Run, from
\* the item that pass popped; no step of a worker, no Stop() and no report
\* changes it, and the report written in a pass shows the value the pass
\* left in global_best_.
C24_Step ==
    /\ global_best_' # global_best_ =>
          /\ LoopStep
          /\ queue_ # <<>>
          /\ global_best_' = Head(queue_)
    /\ reports' # reports =>
          /\ LoopStep
          /\ Len(reports') = Len(reports) + 1
          /\ reports'[Len(reports')].pub = global_best_'.keys.public_key
          /\ reports'[Len(reports')].priv = global_best_'.keys.secret_key

C24_SingleWriter == [][C24_Step]_vars

\* global_best_ was assigned twice, workers still running and Stop() called
\* from outside the loop.
C24_Witness ==
    /\ Len(reports) = 2
    /\ global_best_.keys.public_key # EmptyKeys.public_key
    /\ stop_
    /\ manager.pc = "loop"
    /\ settings_.max_duration = 0
    /\ settings_.target_leading_zeros = 0
    /\ \E w \in Threads : workers_[w].state = "Running"

----------------------------------------------------------------------------
(* C25 *)

\* the calls of Generate worker w's generator has served
KeysGenerated(w) == workers_[w].gen.randoms + workers_[w].gen.increments

RECURSIVE SumKeysGenerated(_)
SumKeysGenerated(n) ==
    IF n = 0 THEN 0 ELSE KeysGenerated(n) + SumKeysGenerated(n - 1)

\* C25, one step: no worker's count goes down; it goes up by one exactly
\* when the worker has generated a key; a step that writes a report leaves
\* every worker as it was, and the total the report shows is the sum of the
\* workers' counts, at most the number of keys generated.
C25_Step ==
    /\ \A w \in Threads :
          w \in DOMAIN workers_' =>
             /\ workers_'[w].generated >= workers_[w].generated
             /\ workers_'[w].generated - workers_[w].generated
                   = (workers_'[w].gen.randoms + workers_'[w].gen.increments)
                     - KeysGenerated(w)
             /\ workers_'[w].generated - workers_[w].generated \in {0, 1}
    /\ reports' # reports =>
          LET r == reports'[Len(reports')] IN
          /\ workers_' = workers_
          /\ r.generated_keys_count = SumGenerated(Len(workers_))
          /\ r.generated_keys_count <= SumKeysGenerated(Len(workers_))

\* C25: the count of a worker never decreases and grows by one per key
\* generated; the manager reads it at any time, the worker unchanged; the
\* total of a report is the sum of the counts at that time and never more
\* than the keys generated.
C25_GeneratedCount ==
    /\ [](\A w \in Threads : workers_[w].generated = KeysGenerated(w))
    /\ [][C25_Step]_vars

\* With two workers, a report shows the total of the keys generated when
\* it was written, and a worker has generated another key since.
C25_Witness ==
    /\ Len(workers_) = 2
    /\ \E k \in 1 .. Len(reports) :
          /\ reports[k].header
          /\ reports[k].generated_keys_count > 0
          /\ reports[k].generated_keys_count < SumGenerated(Len(workers_))

----------------------------------------------------------------------------
(* C26 *)

\* t is a worker publishing: it has called push_back and is at the lock
AtPushLock(t) ==
    tsq.call[t].op = "push_back" /\ tsq.call[t].pc = "lock"

\* C26: a worker that publishes is never made to wait: when it comes to
\* the lock of push_back, no other thread (the manager in try_pop_front,
\* another worker in push_back) holds the mutex.
C26_PushNeverWaits ==
    \A t \in Callers : AtPushLock(t) => CanLock(tsq)

\* What does hold: a publishing worker waits for the mutex only, never for
\* an item, for room in the queue or for a notification.
PushWaitsForMutexOnly ==
    \A t \in Callers :
        tsq.call[t].op = "push_back" => tsq.call[t].pc # "waiting"

----------------------------------------------------------------------------
(* Ed25519_KeysGenerator objects constructed, used and destroyed by several *)
(* threads (ed25519_keys_generator.h).  probe holds the process: the        *)
(* statics of InitializeSodium, one generator per thread, and whether a     *)
(* failed assertion has ended the process.                                  *)

MaxGenThreads == 2      \* threads that construct generators
MaxConstructs == 3      \* generators constructed by all threads together
MaxGenOps == 2          \* member functions called on one generator

GenThreads == 1 .. MaxGenThreads

\* a thread that has no generator yet
NoGenerator ==
    [pc |-> "none", gen |-> NewGenerator, last |-> "none", result |-> 0,
     ops |-> 0]

\* The process at its start.  init_result is a static int, zero before the
\* callable has run; sodium_fails says what the library will report; freed
\* holds the bytes left in the storage that was released last.
LibStart(sodium_fails) ==
    [op |-> "lib", sodium_fails |-> sodium_fails, init_flag |-> "idle",
     init_result |-> 0, inits |-> 0, constructs |-> 0, aborted |-> FALSE,
     freed |-> {}, thr |-> [t \in GenThreads |-> NoGenerator]]

\* sodium_init(): 0 on success, -1 on failure, 1 when already initialised
sodium_init(p) ==
    IF p.sodium_fails THEN -1 ELSE IF p.inits > 0 THEN 1 ELSE 0

\* std::call_once: the flag has not been taken, the caller runs the callable
OnceFree(p) == p.init_flag = "idle"

\* a fault, for comparison: call_once returns while the callable still runs
OnceReturned_Early(p) == p.init_flag # "idle"

\* std::call_once: the callable has returned, the caller goes on
OnceReturned(p) == p.init_flag = "done"

\* Ed25519_KeysGenerator(): keys_{}, then InitializeSodium()
Construct(t) ==
    /\ ~probe.aborted
    /\ probe.thr[t].pc \in {"none", "destroyed"}
    /\ probe.constructs < MaxConstructs
    /\ probe' = [probe EXCEPT !.constructs = @ + 1,
                              !.thr[t] = [NoGenerator EXCEPT !.pc = "ctor"]]
    /\ UNCHANGED <<ndebug, tsq, sysvars>>

\* std::call_once(init_flag, ...): the first caller runs the callable, a
\* caller that finds it running blocks, a caller that finds it done returns
CallOnce(t) ==
    /\ ~probe.aborted
    /\ probe.thr[t].pc = "ctor"
    /\ IF OnceFree(probe)
       THEN probe' = [probe EXCEPT !.init_flag = "active",
                                   !.thr[t].pc = "init"]
       ELSE /\ OnceReturned(probe)
            /\ probe' = [probe EXCEPT !.thr[t].pc = "assert"]
    /\ UNCHANGED <<ndebug, tsq, sysvars>>

\* the callable: init_result = sodium_init()
RunInit(t) ==
    /\ ~probe.aborted
    /\ probe.thr[t].pc = "init"
    /\ probe' = [probe EXCEPT !.init_result = sodium_init(probe),
                              !.inits = @ + 1,
                              !.init_flag = "done",
                              !.thr[t].pc = "assert"]
    /\ UNCHANGED <<ndebug, tsq, sysvars>>

\* assert(init_result >= 0), compiled out with NDEBUG; then the
\* constructor returns
AssertInit(t) ==
    /\ ~probe.aborted
    /\ probe.thr[t].pc = "assert"
    /\ probe' = IF ~ndebug /\ probe.init_result < 0
                THEN [probe EXCEPT !.aborted = TRUE]
                ELSE [probe EXCEPT !.thr[t].pc = "ready"]
    /\ UNCHANGED <<ndebug, tsq, sysvars>>


\* what crypto_sign_ed25519_seed_keypair can return: 0, or a failure code
KeypairResults == {0, -1}

\* The generator after a call of the library that returned result: on
\* success the keys are the derived ones; on failure the library may or
\* may not have written them.
AfterKeypair(before, derived, result, written) ==
    IF result = 0 \/ written
    THEN derived
    ELSE [derived EXCEPT !.keys_.public_key = before.keys_.public_key,
                         !.keys_.secret_key = before.keys_.secret_key]

\* the statement after the library call: assert(result == 0), compiled out
\* with NDEBUG
AfterAssert(p, t, gen, last, result) ==
    IF ~ndebug /\ result # 0
    THEN [p EXCEPT !.aborted = TRUE]
    ELSE [p EXCEPT !.thr[t].gen = gen, !.thr[t].last = last,
                   !.thr[t].result = result, !.thr[t].ops = @ + 1]

\* a live generator on which another member function may be called
Usable(t) ==
    /\ ~probe.aborted
    /\ probe.thr[t].pc = "ready"
    /\ probe.thr[t].ops < MaxGenOps

\* Generate(bool crypto)
CallGenerate(t) ==
    /\ Usable(t)
    /\ \E crypto \in BOOLEAN, random_seed \in StartSeeds,
          result \in KeypairResults, written \in BOOLEAN :
          LET before == probe.thr[t].gen
              gen == AfterKeypair(before,
                                  Generate(before, crypto, random_seed),
                                  result, written)
          IN  probe' = AfterAssert(probe, t, gen, "Generate", result)
    /\ UNCHANGED <<ndebug, tsq, sysvars>>

\* Generate(Seed_t& seed) called with a seed of the caller's
CallGenerateSeed(t) ==
    /\ Usable(t)
    /\ \E seed \in StartSeeds, result \in KeypairResults,
          written \in BOOLEAN :
          LET before == probe.thr[t].gen
              gen == AfterKeypair(before, GenerateFromSeed(before, seed),
                                  result, written)
          IN  probe' = AfterAssert(probe, t, gen, "GenerateSeed", result)
    /\ UNCHANGED <<ndebug, tsq, sysvars>>

\* SetSeed(seed): keys_.seed = seed
CallSetSeed(t) ==
    /\ Usable(t)
    /\ \E seed \in StartSeeds :
          probe' = [probe EXCEPT !.thr[t].gen.keys_.seed = seed,
                                 !.thr[t].last = "SetSeed",
                                 !.thr[t].ops = @ + 1]
    /\ UNCHANGED <<ndebug, tsq, sysvars>>

\* Cleanup(): sodium_memzero of secret_key, public_key and seed
Cleanup(gen) ==
    [gen EXCEPT !.keys_.secret_key = Zeros(Len(@)),
                !.keys_.public_key = Zeros(Len(@)),
                !.keys_.seed = Zeros(Len(@))]

\* ~Candidate(), implicit: Candidate, Keys_t and the byte arrays declare no
\* destructor, the bytes stay as they are in the released storage
DestroyCandidate(cand) == cand

\* ~Ed25519_KeysGenerator(): Cleanup(), then the storage is released
Destroy(t) ==
    /\ ~probe.aborted
    /\ probe.thr[t].pc = "ready"
    /\ LET gen == Cleanup(probe.thr[t].gen) IN
       probe' = [probe EXCEPT !.thr[t].pc = "destroyed",
                              !.thr[t].gen = gen,
                              !.freed = {gen.keys_}]
    /\ UNCHANGED <<ndebug, tsq, sysvars>>

\* A Candidate holding a copy of Keys() is discarded: the popped item at
\* the end of a pass of Run's loop, a local best that is replaced, an item
\* in the queue when the queue is destroyed.
DiscardCandidate(t) ==
    /\ ~probe.aborted
    /\ probe.thr[t].pc = "ready"
    /\ probe.thr[t].last \in {"Generate", "GenerateSeed"}
    /\ LET cand == [EmptyCandidate EXCEPT !.keys = probe.thr[t].gen.keys_]
       IN  probe' = [probe EXCEPT !.freed = {DestroyCandidate(cand).keys}]
    /\ UNCHANGED <<ndebug, tsq, sysvars>>

LibInit ==
    /\ ndebug \in BOOLEAN
    /\ probe \in {LibStart(sodium_fails) : sodium_fails \in BOOLEAN}
    /\ tsq = NoCalls
    /\ settings_ = [threads_count |-> 1, max_duration |-> 0,
                    target_leading_zeros |-> 0, verbose |-> FALSE,
                    ipv6_nice |-> FALSE]
    /\ SysInit

\* Generators constructed and destroyed by several threads at once.
LibNext ==
    \/ \E t \in GenThreads : Construct(t)
    \/ \E t \in GenThreads : CallOnce(t)
    \/ \E t \in GenThreads : RunInit(t)
    \/ \E t \in GenThreads : AssertInit(t)
    \/ \E t \in GenThreads : Destroy(t)

LibSpec == LibInit /\ [][LibNext]_vars

\* One thread's generators, with every member function called on them.
GenNext ==
    \/ Construct(1)
    \/ CallOnce(1)
    \/ RunInit(1)
    \/ AssertInit(1)
    \/ CallGenerate(1)
    \/ CallGenerateSeed(1)
    \/ CallSetSeed(1)
    \/ Destroy(1)
    \/ DiscardCandidate(1)

GenSpec == LibInit /\ [][GenNext]_vars

----------------------------------------------------------------------------
(* C27 *)

\* thread t's constructor has come back from InitializeSodium's call_once
PastCallOnce(t) == probe.thr[t].pc \in {"assert", "ready", "destroyed"}

\* C27: sodium_init runs once in the process, however many generators are
\* constructed and however the constructors interleave; a constructor gets
\* past the initialisation only when that one run has returned; once it
\* has, no later constructor changes what it left.
C27_InitOnce ==
    /\ [](/\ probe.inits <= 1
          /\ \A t \in GenThreads :
                PastCallOnce(t) =>
                    probe.init_flag = "done" /\ probe.inits = 1)
    /\ [][probe.init_flag = "done" =>
             /\ probe'.init_flag = "done"
             /\ probe'.inits = probe.inits
             /\ probe'.init_result = probe.init_result]_vars

\* Every thread has a generator, the number of generators constructed is
\* above the number of threads, and the library was initialised once.
C27_Witness ==
    /\ \A t \in GenThreads : probe.thr[t].pc = "ready"
    /\ probe.constructs > MaxGenThreads
    /\ probe.inits = 1

----------------------------------------------------------------------------
(* C28 *)

\* thread t has a generator whose Keys() can be called
Live(t) == ~probe.aborted /\ probe.thr[t].pc = "ready"

\* C28: when sodium_init reports failure, or a derivation returns a
\* failure code, the process ends there: no generator is left in use after
\* a failed initialisation, and Keys() never gives the keys a failed
\* derivation left.
C28_FailFast ==
    \A t \in GenThreads :
        Live(t) => probe.init_result >= 0 /\ probe.thr[t].result = 0

\* The same for the build that keeps assert().
FailFastWithAsserts == ~ndebug => C28_FailFast

----------------------------------------------------------------------------
(* C29 *)

\* C29: storage that held key material is released with its secret key and
\* its seed zeroed, whether it was a generator's or a candidate's.
C29_WipedOnDiscard ==
    \A keys \in probe.freed :
        /\ keys.secret_key = Zeros(SecretKeySize)
        /\ keys.seed = Zeros(SeedSize)

\* What does hold: a generator is destroyed with its public key, secret
\* key and seed zeroed.
GeneratorWiped ==
    \A t \in GenThreads :
        probe.thr[t].pc = "destroyed" =>
            /\ probe.thr[t].gen.keys_.public_key = Zeros(PublicKeySize)
            /\ probe.thr[t].gen.keys_.secret_key = Zeros(SecretKeySize)
            /\ probe.thr[t].gen.keys_.seed = Zeros(SeedSize)

----------------------------------------------------------------------------
(* C30 *)

\* the keys are the ones the library derives from this seed
DerivedFrom(keys, seed) ==
    /\ keys.public_key = SeedKeypairPublic(seed)
    /\ keys.secret_key = seed \o keys.public_key

\* C30: after Generate(true), Generate(false) or Generate(seed), in any
\* sequence, the seed of Keys() is the seed its public and secret key were
\* derived from.
C30_SeedOfKeys ==
    \A t \in GenThreads :
        (/\ Live(t)
         /\ probe.thr[t].last \in {"Generate", "GenerateSeed"}
         /\ probe.thr[t].result = 0) =>
            DerivedFrom(probe.thr[t].gen.keys_, probe.thr[t].gen.keys_.seed)

\* What does hold: it is so after Generate(bool).
SeedOfKeysAfterGenerateBool ==
    \A t \in GenThreads :
        (/\ Live(t)
         /\ probe.thr[t].last = "Generate"
         /\ probe.thr[t].result = 0) =>
            DerivedFrom(probe.thr[t].gen.keys_, probe.thr[t].gen.keys_.seed)

----------------------------------------------------------------------------
(* C31 *)

\* the candidates held in queue_, as a worker's local best, as global_best_
Observable ==
    {global_best_}
    \cup {queue_[i] : i \in 1 .. Len(queue_)}
    \cup {workers_[w].local_best : w \in Threads}

\* c's scores and address are the ones of its public key, and its keys and
\* seed are the ones of one derivation
Consistent(c) ==
    /\ c.zero_bits = LeadingZeroBits(c.keys.public_key)
    /\ c.ipv6_zero_blocks = AddressZeroBlocks(c.addr)
    /\ DerivedFrom(c.keys, c.keys.seed)
    /\ c.addr = AddrForKey(c.keys.public_key)

\* C31: every candidate in queue_, every local best and global_best_ has
\* the address AddrForKey gives for its public key, the zero_bits
\* LeadingZeroBits gives for it, the ipv6_zero_blocks AddressZeroBlocks
\* gives for its address, and keys and seed of one generate call.
C31_Consistent == \A c \in Observable : Consistent(c)

\* What does hold: it is so for every candidate but the default-constructed
\* one that global_best_ and the local bests start with.
ConsistentButDefault ==
    \A c \in Observable \ {EmptyCandidate} :
        /\ \E k \in 1 .. Len(PubKeys) : c.keys.public_key = PubKeys[k]
        /\ c = MakeCandidate(c.keys)
        /\ DerivedFrom(c.keys, c.keys.seed)

----------------------------------------------------------------------------
(* C32 *)

\* the character of the hexadecimal digit n: '0' + n up to 9, 'a' + n - 10
\* from 10
RefHexDigit(n) == IF n < 10 THEN 48 + n ELSE 97 + n - 10

\* C32: for the bytes b of length N, HexToBytes<N>(BytesToHex(b)) = b, and
\* BytesToHex(b) has 2N characters, each a digit 0-9 or a-f, the high
\* nibble of every byte before its low nibble.
C32_HexRoundTrip ==
    (probe.op = "Hex" /\ probe.done) =>
        /\ probe.back = probe.bytes
        /\ Len(probe.hex) = 2 * Len(probe.bytes)
        /\ \A i \in 1 .. Len(probe.bytes) :
              /\ probe.hex[2 * i - 1] = RefHexDigit(probe.bytes[i] \div 16)
              /\ probe.hex[2 * i] = RefHexDigit(probe.bytes[i] % 16)

\* 64 bytes went there and back, among them one with two letter digits and
\* one with two different decimal digits.
C32_Witness ==
    /\ probe.op = "Hex" /\ probe.done
    /\ Len(probe.bytes) = SecretKeySize
    /\ probe.back = probe.bytes
    /\ \E i, j \in 1 .. Len(probe.bytes) :
          /\ probe.bytes[i] \div 16 >= 10 /\ probe.bytes[i] % 16 >= 10
          /\ probe.bytes[j] \div 16 < probe.bytes[j] % 16
          /\ probe.bytes[j] % 16 < 10

----------------------------------------------------------------------------
(* C33 *)

\* the scores of the key a report shows
ReportScores(r) ==
    [zero_bits |-> Scored[KeyIndex(r.pub)].zero_bits,
     ipv6_zero_blocks |-> Scored[KeyIndex(r.pub)].ipv6_zero_blocks]

\* C33: every replacement of global_best_ installs a candidate strictly
\* better than the one it replaces under the mode of the run, every report
\* shows a candidate strictly better than all reported before it, and a
\* candidate with both scores 0 is never adopted or reported.
C33_NeverWorse ==
    /\ [][global_best_' # global_best_ =>
             /\ RefBetter(global_best_', global_best_, settings_.ipv6_nice)
             /\ global_best_'.zero_bits + global_best_'.ipv6_zero_blocks > 0
         ]_vars
    /\ [](\A j \in 1 .. Len(reports) :
             /\ ReportScores(reports[j]).zero_bits
                   + ReportScores(reports[j]).ipv6_zero_blocks > 0
             /\ \A i \in 1 .. (j - 1) :
                   RefBetter(ReportScores(reports[j]),
                             ReportScores(reports[i]),
                             settings_.ipv6_nice))

\* Two candidates were adopted and reported one after the other where
\* zero groups decide, and nothing is left in the queue.
C33_Witness ==
    /\ settings_.ipv6_nice
    /\ Len(reports) = 2
    /\ queue_ = <<>>
    /\ global_best_.keys.public_key = reports[2].pub

----------------------------------------------------------------------------
(* C34 *)

\* the values of a record of pushes or pops, in its order
ValuesOf(record) == [i \in 1 .. Len(record) |-> record[i][2]]

\* how often v occurs in a sequence
Count(seq, v) == Cardinality({i \in 1 .. Len(seq) : seq[i] = v})

\* the values producer t pushed, in the order it pushed them
PushedBy(t) ==
    ValuesOf(SelectSeq(probe.pushed, LAMBDA e : e[1] = t))

\* the values popped so far that producer t had pushed, in the order they
\* were popped: popped item number i is pushed item number i
PoppedOf(t) ==
    LET idx == {i \in 1 .. Len(probe.popped) : probe.pushed[i][1] = t}
        Nth(n) == CHOOSE i \in idx :
                     Cardinality({j \in idx : j <= i}) = n
    IN  [n \in 1 .. Cardinality(idx) |-> probe.popped[Nth(n)][2]]

\* C34: whatever the interleaving, the items popped so far together with
\* the items in the queue are the items pushed so far, each as often, none
\* lost, doubled or invented; the items come out in the order they went
\* in, so those of one producer come out in the order it pushed them.
C34_Conservation ==
    /\ \A v \in Items :
          Count(ValuesOf(probe.popped), v) + Count(queue_, v)
             = Count(ValuesOf(probe.pushed), v)
    /\ Len(probe.popped) + Len(queue_) = Len(probe.pushed)
    /\ ValuesOf(probe.popped) \o queue_ = ValuesOf(probe.pushed)
    /\ \A t \in Callers :
          PoppedOf(t) = SubSeq(PushedBy(t), 1, Len(PoppedOf(t)))

\* Two producers have pushed three items between them, different values
\* among them; the consumer has popped two, one is still queued.
C34_Witness ==
    /\ Len(probe.pushed) = MaxPushes
    /\ Len(probe.popped) = 2
    /\ Len(queue_) = 1
    /\ probe.pushed[1][1] # probe.pushed[2][1]
    /\ probe.pushed[1][2] # probe.pushed[2][2]
    /\ probe.pushed[3][1] = probe.pushed[1][1]


----------------------------------------------------------------------------
(* C35 *)

\* Group 0 of an address as a number: bytes 0 and 1, byte 0 the high one.
Group0(addr) == ByteMod * addr[1] + addr[2]

\* C35: for every public key with at most 127 leading zero bits
\* AddrForKey returns, and byte 1 of the address is LeadingZeroBits of the
\* key; of two such keys the one with more leading zero bits has the
\* larger address group 0.
C35_ScorersAgree ==
    (/\ probe.op = "AddrForKey" /\ probe.done
     /\ LeadingZeroBits(probe.key) <= 127) =>
        /\ ~probe.aborted
        /\ probe.out[2] = LeadingZeroBits(probe.key)
        /\ \A other \in ComparedKeys :
              (/\ LeadingZeroBits(other) <= 127
               /\ LeadingZeroBits(probe.key) > LeadingZeroBits(other)) =>
                  Group0(probe.out) > Group0(AddrForKey(other))

\* C35 witness: the address of a key with exactly 127 leading zero bits
\* was derived in a build with the assertion, and its byte 1 is 127.
C35_Witness ==
    /\ probe.op = "AddrForKey" /\ probe.done /\ ~ndebug
    /\ probe.key = KeyFrom(127, 165)
    /\ probe.out[2] = 127


----------------------------------------------------------------------------
(* C36 *)

\* The pair (ipv6_zero_blocks, zero_bits) of x is above that of y in the
\* lexicographic order.
LexAbove(x, y) ==
    \E d \in 1 .. MaxScore :
        \/ x.ipv6_zero_blocks = y.ipv6_zero_blocks + d
        \/ /\ x.ipv6_zero_blocks = y.ipv6_zero_blocks
           /\ x.zero_bits = y.zero_bits + d

\* C36: with zero groups deciding (ipv6_nice = true) x.IsBetter(y) holds
\* exactly when the pair (ipv6_zero_blocks, zero_bits) of x is above that
\* of y in the lexicographic order; the relation is asymmetric and
\* transitive, and of any two candidates exactly one of x.IsBetter(y),
\* y.IsBetter(x) and equality of both score fields holds.
C36_Lexicographic ==
    (probe.op = "IsBetter" /\ probe.done /\ probe.ipv6_nice) =>
        LET lt(x, y) == probe.out[y][x]
            same(x, y) ==
                /\ probe[x].ipv6_zero_blocks = probe[y].ipv6_zero_blocks
                /\ probe[x].zero_bits = probe[y].zero_bits
            One(p, q, r) ==
                (p /\ ~q /\ ~r) \/ (~p /\ q /\ ~r) \/ (~p /\ ~q /\ r)
        IN  /\ \A x \in ThreeNames, y \in ThreeNames :
                  /\ lt(y, x) <=> LexAbove(probe[x], probe[y])
                  /\ lt(x, y) => ~lt(y, x)
                  /\ One(lt(x, y), lt(y, x), same(x, y))
            /\ \A x \in ThreeNames, y \in ThreeNames, z \in ThreeNames :
                  (lt(x, y) /\ lt(y, z)) => lt(x, z)

\* C36 witness: zero groups deciding; a has more zero groups than b and
\* fewer leading zero bits, b ties with c on zero groups and has more
\* leading zero bits: a is better than b, b than c, a than c.
C36_Witness ==
    /\ probe.op = "IsBetter" /\ probe.done /\ probe.ipv6_nice
    /\ probe.a.ipv6_zero_blocks > probe.b.ipv6_zero_blocks
    /\ probe.a.zero_bits < probe.b.zero_bits
    /\ probe.b.ipv6_zero_blocks = probe.c.ipv6_zero_blocks
    /\ probe.b.zero_bits > probe.c.zero_bits
    /\ probe.out["a"]["b"] /\ probe.out["b"]["c"] /\ probe.out["a"]["c"]
    /\ ~probe.out["b"]["a"] /\ ~probe.out["c"]["b"] /\ ~probe.out["c"]["a"]


----------------------------------------------------------------------------
(* C37 *)

\* C37: PrintBest never divides by zero: in every report, whatever the
\* elapsed time, a rate is there only when the elapsed whole seconds are
\* above 0, and it is then the keys tried divided by those seconds; a
\* report written in the first second has no rate, verbose or not.
C37_NoDivisionByZero ==
    \A i \in 1 .. Len(reports) :
        LET r == reports[i] IN
        /\ r.elapsed \in 0 .. MaxElapsed
        /\ r.rate # -1 =>
              /\ r.elapsed > 0
              /\ r.rate * r.elapsed <= r.generated_keys_count
              /\ r.generated_keys_count < (r.rate + 1) * r.elapsed
        /\ r.elapsed = 0 => r.rate = -1
        /\ (settings_.verbose /\ r.elapsed > 0) => r.rate >= 0

\* C37 witness: in verbose mode one report was written in the first
\* second, without a rate, and one later, with the rate.
C37_Witness ==
    /\ settings_.verbose
    /\ Len(reports) = 2
    /\ reports[1].elapsed = 0 /\ reports[1].rate = -1
    /\ reports[2].elapsed > 0 /\ reports[2].rate >= 0

====
